---- MODULE Spec2Model ----
(***************************************************************************)
(* Model of twilight-dispatch: the Redis state cache projection            *)
(* (src/src/cache.rs) and the outgoing event pump (src/src/handler.rs).    *)
(*                                                                         *)
(* Redis keys are modelled by their ':'-separated segments: the string     *)
(* "member:1:100" is the tuple <<"member", 1, 100>>.  Index-set names are  *)
(* tuples too: "guild_keys" is <<"guild", "_keys">> and "guild_keys:1" is  *)
(* <<"guild", "_keys", 1>>.  An absent key is a key outside the domain of  *)
(* the map; an Option is a sequence of length at most one.                 *)
(***************************************************************************)
EXTENDS Integers, Sequences, FiniteSets, TLC

VARIABLES
    kv,                 \* Redis string values: key -> stored (serialized) value
    sets,               \* Redis sets: set name -> non-empty set of member keys
    expiry,             \* Redis hash expiry_keys: key -> expiry timestamp, kept
                        \* relative to the clock: timestamp - FormattedDateTime::now()
    state_member,       \* CONFIG.state_member
    state_member_ttl,   \* CONFIG.state_member_ttl (Option<u64>)
    world,              \* the ids that exist upstream in this run
    lastDelete,         \* per guild: the last event applied for it was GuildDelete
    lastOp,             \* the last direct set / del call on the store or janitor scan
                        \* that found expired keys, if no event was applied since
    ideal,              \* runs with interrupted projections: the store the completely
                        \* applied events alone would have produced
    pc,                 \* outgoing pump: where the loop over the event stream stands
    stream,             \* the (shard, event) items taken from the event stream so far
    proj,               \* result of timeout(update_time, cache.update(&event))
    finished,           \* number of stream items whose match arm has completed
    published,          \* the basic_publish calls made, in order, each tagged with the
                        \* position n of its event in the stream
    broker,             \* the messages the broker accepted, in order
    gateway_events,     \* GATEWAY_EVENTS counter, by (type, shard)
    shard_events,       \* SHARD_EVENTS counter, by type
    tx,                 \* the member-request channel (mpsc, bounded)
    requests,           \* RequestGuildMembers commands issued by the pacing task
    held,               \* the pair the pacing task received and has not yet issued
    tick_in,            \* the pacing interval's next deadline minus the time now
    since,              \* time since the last command was issued, up to the delay
    concurrency,        \* CONFIG.shards_concurrency: 1 builds a LocalQueue
    clock,              \* admission queue: the time
    queues,             \* per bucket: the unbounded channel of waiting requests
    wake,               \* per bucket: time left of the waiter's sleep, 0 when in recv
    alive,              \* per bucket: the waiter task still holds its receiver
    completed,          \* the request futures that have completed, in order
    config,             \* startup: CONFIG (shards_start, shards_end, shards_total,
                        \* clusters, resume)
    stored,             \* startup: the stored gateway_shards and gateway_sessions
    clusters,           \* startup: the shard schemes built by get_clusters, once called
    resumes,            \* startup: the map returned by get_resume_sessions, once called
    rpc,                \* command router: where the loop over the consumer stands
    deliveries,         \* the bodies of the deliveries received from gateway.send, in
                        \* order; the delivery tag is the position
    acks,               \* the delivery tags passed to basic_ack, in order
    calls,              \* the command and shutdown calls made on clusters, in order
    warnings            \* the failures the command router logged, in order, each with
                        \* the number of deliveries received so far

pacerVars == <<held, tick_in, since>>

pumpVars == <<pc, stream, proj, finished, published, broker, gateway_events, shard_events,
              tx, requests, pacerVars>>

cacheVars == <<kv, sets, expiry, state_member, state_member_ttl, world, lastDelete, lastOp,
               ideal>>

queueVars == <<concurrency, clock, queues, wake, alive, completed>>

startVars == <<config, stored, clusters, resumes>>

routerVars == <<rpc, deliveries, acks, calls, warnings>>

besidesCache == <<pumpVars, queueVars, startVars, routerVars>>
besidesPump == <<cacheVars, queueVars, startVars, routerVars>>
besidesQueue == <<cacheVars, pumpVars, startVars, routerVars>>
besidesStart == <<cacheVars, pumpVars, queueVars, routerVars>>
besidesRouter == <<cacheVars, pumpVars, queueVars, startVars>>

-----------------------------------------------------------------------------
(* constants.rs *)

GUILD_KEY == "guild"
CHANNEL_KEY == "channel"
MESSAGE_KEY == "message"
ROLE_KEY == "role"
MEMBER_KEY == "member"
BOT_USER_KEY == <<"bot_user">>
KEYS_SUFFIX == "_keys"

guild_key(guild) == <<GUILD_KEY, guild>>
channel_key(guild, channel) == <<CHANNEL_KEY, guild, channel>>
private_channel_key(channel) == <<CHANNEL_KEY, channel>>
role_key(guild, role) == <<ROLE_KEY, guild, role>>
member_key(guild, member) == <<MEMBER_KEY, guild, member>>

-----------------------------------------------------------------------------
(* The ids that exist upstream.  Ids are snowflakes: a channel id belongs  *)
(* to one guild (or is a private channel) for its whole life.  A run draws *)
(* its events from one of the worlds below (variable world).               *)

BotId == CHOOSE u \in {100} : TRUE
Revs == {1, 2}
FirstRev == CHOOSE r \in Revs : \A q \in Revs : r <= q
TTL == 1

Worlds ==
    { [guilds |-> {1}, text |-> {11}, voice |-> {14}, private |-> {13},
       roles |-> {}, users |-> {}],
      [guilds |-> {1}, text |-> {11}, voice |-> {}, private |-> {},
       roles |-> {20}, users |-> {BotId, 101}],
      [guilds |-> {1, 2}, text |-> {11}, voice |-> {}, private |-> {13},
       roles |-> {20}, users |-> {}] }

Guilds == UNION {w.guilds : w \in Worlds}
TextChannels == UNION {w.text : w \in Worlds}
VoiceChannels == UNION {w.voice : w \in Worlds}
PrivateChannels == UNION {w.private : w \in Worlds}
GuildChannels == TextChannels \cup VoiceChannels
Roles == UNION {w.roles : w \in Worlds}
Users == UNION {w.users : w \in Worlds}
(* every guild channel of the worlds belongs to the first guild *)
ChannelGuild(c) == CHOOSE g \in Guilds : \A h \in Guilds : g <= h

ChannelValue(c, g, rev) == [kind |-> "channel", id |-> c, guild_id |-> g, rev |-> rev]
RoleValue(r, rev) == [kind |-> "role", id |-> r, rev |-> rev]
MemberValue(g, u, rev) == [kind |-> "member", guild_id |-> g, user |-> u, rev |-> rev]
GuildValue(g, rev) == [kind |-> "guild", id |-> g, unavailable |-> FALSE, rev |-> rev]
UnavailableGuildValue(g) == [kind |-> "guild", id |-> g, unavailable |-> TRUE]
UserValue(rev) == [kind |-> "user", id |-> BotId, rev |-> rev]

-----------------------------------------------------------------------------
(* Redis commands on a store d = [kv, sets, expiry] *)

RECURSIVE SetToSeq(_)
SetToSeq(S) ==
    IF S = {} THEN <<>>
    ELSE LET x == CHOOSE x \in S : TRUE IN <<x>> \o SetToSeq(S \ {x})

Range(s) == {s[i] : i \in 1..Len(s)}

RECURSIVE MSetKv(_, _)
MSetKv(m, items) ==
    IF items = <<>> THEN m
    ELSE LET k == items[1][1]
             v == items[1][2]
             m1 == [x \in DOMAIN m \cup {k} |-> IF x = k THEN v ELSE m[x]]
         IN MSetKv(m1, Tail(items))

Members(d, name) == IF name \in DOMAIN d.sets THEN d.sets[name] ELSE {}

SAdd(s, name, members) ==
    LET old == IF name \in DOMAIN s THEN s[name] ELSE {}
    IN [x \in DOMAIN s \cup {name} |-> IF x = name THEN old \cup members ELSE s[x]]

SRem(s, name, members) ==
    LET old == IF name \in DOMAIN s THEN s[name] ELSE {}
        D == IF old \ members = {} THEN DOMAIN s \ {name} ELSE DOMAIN s
    IN [x \in D |-> IF x = name THEN old \ members ELSE s[x]]

Apply(d, c) ==
    CASE c.op = "MSET" -> [d EXCEPT !.kv = MSetKv(d.kv, c.items)]
      [] c.op = "DEL" -> [d EXCEPT !.kv = [x \in DOMAIN d.kv \ c.keys |-> d.kv[x]]]
      [] c.op = "SADD" -> [d EXCEPT !.sets = SAdd(d.sets, c.name, c.members)]
      [] c.op = "SREM" -> [d EXCEPT !.sets = SRem(d.sets, c.name, c.members)]
      [] c.op = "HSET" -> [d EXCEPT !.expiry = MSetKv(d.expiry, c.items)]
      [] c.op = "HDEL" ->
            [d EXCEPT !.expiry = [x \in DOMAIN d.expiry \ c.keys |-> d.expiry[x]]]

RECURSIVE Run(_, _)
Run(d, cmds) == IF cmds = <<>> THEN d ELSE Run(Apply(d, cmds[1]), Tail(cmds))

-----------------------------------------------------------------------------
(* cache.rs: get, set_all, del_all, expire_all, del_hashmap *)

get_keys(key) == key

get(d, key) == IF key \in DOMAIN d.kv THEN <<d.kv[key]>> ELSE <<>>

(* the members of every guild's index set, whichever guild was asked for *)
get_members_any_guild(d, name) ==
    UNION {d.sets[n] : n \in {x \in DOMAIN d.sets : Len(x) = Len(name) /\ x[1] = name[1]}}

(* SMEMBERS *)
get_members(d, name) == Members(d, name)

new_key_raw(key) == key

new_key(key) ==
    LET parts == get_keys(key)
    IN IF Len(parts) > 2 /\ parts[1] = CHANNEL_KEY THEN <<parts[1], parts[3]>> ELSE key

(* the guild set derived from the canonical key instead of the key given *)
set_members_canonical(key) ==
    LET parts == new_key(key)
    IN (IF Len(parts) > 1 THEN {<<parts[1], KEYS_SUFFIX>>} ELSE {})
       \cup
       (IF Len(parts) > 2 /\ parts[1] # MESSAGE_KEY
            THEN {<<GUILD_KEY, KEYS_SUFFIX, parts[2]>>}
        ELSE IF Len(parts) > 2
            THEN {<<CHANNEL_KEY, KEYS_SUFFIX, parts[2]>>}
        ELSE {})

set_members(key) ==
    LET parts == get_keys(key)
    IN (IF Len(parts) > 1 THEN {<<parts[1], KEYS_SUFFIX>>} ELSE {})
       \cup
       (IF Len(parts) > 2 /\ parts[1] # MESSAGE_KEY
            THEN {<<GUILD_KEY, KEYS_SUFFIX, parts[2]>>}
        ELSE IF Len(parts) > 2
            THEN {<<CHANNEL_KEY, KEYS_SUFFIX, parts[2]>>}
        ELSE {})

set_all(items) ==
    LET keys == [i \in 1..Len(items) |-> <<new_key(items[i][1]), items[i][2]>>]
        names == UNION {set_members(items[i][1]) : i \in 1..Len(items)}
        value(name) ==
            {new_key(items[i][1]) : i \in {j \in 1..Len(items) : name \in set_members(items[j][1])}}
        order == SetToSeq(names)
    IN IF keys = <<>> THEN <<>>
       ELSE <<[op |-> "MSET", items |-> keys]>>
            \o [i \in 1..Len(order) |->
                    [op |-> "SADD", name |-> order[i], members |-> value(order[i])]]

set(key, value) == set_all(<<<<key, value>>>>)

(* timestamp = now + value; stored relative to now, so the entry starts at value *)
expire_all(keys) ==
    LET entries == [i \in 1..Len(keys) |-> <<keys[i][1], keys[i][2]>>]
    IN IF entries = <<>> THEN <<>> ELSE <<[op |-> "HSET", items |-> entries]>>

expire(key, ex) == expire_all(<<<<key, ex>>>>)

del_members(key) ==
    LET parts == get_keys(key)
    IN (IF Len(parts) > 1 THEN {<<parts[1], KEYS_SUFFIX>>} ELSE {})
       \cup
       (IF Len(parts) > 2
            THEN IF parts[1] # MESSAGE_KEY
                    THEN {<<GUILD_KEY, KEYS_SUFFIX, parts[2]>>}
                    ELSE {<<CHANNEL_KEY, KEYS_SUFFIX, parts[2]>>}
            ELSE {})

(* the index sets are given the key as passed, not the canonical key *)
del_all_raw(keyseq) ==
    LET keys == {new_key(keyseq[i]) : i \in 1..Len(keyseq)}
        names == UNION {del_members(keyseq[i]) : i \in 1..Len(keyseq)}
        value(name) ==
            {keyseq[i] : i \in {j \in 1..Len(keyseq) : name \in del_members(keyseq[j])}}
        order == SetToSeq(names)
    IN IF keyseq = <<>> THEN <<>>
       ELSE <<[op |-> "DEL", keys |-> keys]>>
            \o [i \in 1..Len(order) |->
                    [op |-> "SREM", name |-> order[i], members |-> value(order[i])]]

del_all(keyseq) ==
    LET keys == {new_key(keyseq[i]) : i \in 1..Len(keyseq)}
        names == UNION {del_members(keyseq[i]) : i \in 1..Len(keyseq)}
        value(name) ==
            {new_key(keyseq[i]) : i \in {j \in 1..Len(keyseq) : name \in del_members(keyseq[j])}}
        order == SetToSeq(names)
    IN IF keyseq = <<>> THEN <<>>
       ELSE <<[op |-> "DEL", keys |-> keys]>>
            \o [i \in 1..Len(order) |->
                    [op |-> "SREM", name |-> order[i], members |-> value(order[i])]]

del(key) == del_all(<<key>>)

del_hashmap(keyseq) ==
    IF keyseq = <<>> THEN <<>> ELSE <<[op |-> "HDEL", keys |-> Range(keyseq)]>>

(* the guild key is deleted but the members of guild_keys:<id> are not *)
clear_guild_only(d, guild_id) == del(guild_key(guild_id))

(* clear_guild: SMEMBERS guild_keys:<id>, del_all of them, then del of guild:<id> *)
clear_guild(d, guild_id) ==
    LET members == SetToSeq(get_members(d, <<GUILD_KEY, KEYS_SUFFIX, guild_id>>))
    IN del_all(members) \o del(guild_key(guild_id))

-----------------------------------------------------------------------------
(* cache.rs: update, as the sequence of Redis write commands it issues on   *)
(* the store d when it runs to completion                                  *)

Some(o) == o # <<>>

MapSeq(S, Op(_)) == LET q == SetToSeq(S) IN [i \in 1..Len(q) |-> Op(q[i])]

(* the MemberUpdate arm written as an upsert *)
member_update_upsert(d, ev, sm, ttl) ==
    LET key == member_key(ev.guild_id, ev.user)
    IN set(key, MemberValue(ev.guild_id, ev.user, ev.rev))
       \o (IF Some(ttl) THEN expire(key, ttl[1]) ELSE <<>>)

(* Event::MemberUpdate: the merged fields are modelled by the revision *)
member_update(d, ev, sm, ttl) ==
    IF sm \/ ev.user = BotId
        THEN LET key == member_key(ev.guild_id, ev.user)
                 member == get(d, key)
             IN IF Some(member)
                    THEN set(key, [member[1] EXCEPT !.rev = ev.rev])
                         \o (IF Some(ttl) THEN expire(key, ttl[1]) ELSE <<>>)
                    ELSE <<>>
        ELSE <<>>

(* the UnavailableGuild arm without the cascade delete *)
unavailable_guild_stub_only(d, guild_id) ==
    set(guild_key(guild_id), UnavailableGuildValue(guild_id))

(* Event::UnavailableGuild *)
unavailable_guild(d, guild_id) ==
    clear_guild(d, guild_id) \o set(guild_key(guild_id), UnavailableGuildValue(guild_id))

(* the value update returns as old for the channel events: a raw read of the event's key *)
channel_old(d, ev) ==
    IF ev.private
        THEN get(d, private_channel_key(ev.id))
        ELSE get(d, channel_key(ev.guild_id, ev.id))

update(d, ev, sm, ttl) ==
    CASE ev.kind = "ChannelCreate" ->
            IF ev.private
                THEN set(private_channel_key(ev.id), ChannelValue(ev.id, 0, ev.rev))
                ELSE set(channel_key(ev.guild_id, ev.id),
                         ChannelValue(ev.id, ev.guild_id, ev.rev))
      [] ev.kind = "ChannelDelete" ->
            IF ev.private
                THEN del(private_channel_key(ev.id))
                ELSE del(channel_key(ev.guild_id, ev.id))
      [] ev.kind = "ChannelUpdate" ->
            IF ev.private
                THEN set(private_channel_key(ev.id), ChannelValue(ev.id, 0, ev.rev))
                ELSE set(channel_key(ev.guild_id, ev.id),
                         ChannelValue(ev.id, ev.guild_id, ev.rev))
      [] ev.kind = "GuildCreate" ->
            LET chan(c) == <<channel_key(ev.id, c), ChannelValue(c, ev.id, ev.rev)>>
                role(r) == <<role_key(ev.id, r), RoleValue(r, ev.rev)>>
                memb(u) == <<member_key(ev.id, u), MemberValue(ev.id, u, ev.rev)>>
                mttl(u) == <<member_key(ev.id, u), ttl[1]>>
                items == MapSeq(ev.channels \cap TextChannels, chan)
                         \o MapSeq(ev.roles, role)
                         \o MapSeq({u \in ev.members : sm \/ u = BotId}, memb)
                         \o <<<<guild_key(ev.id), GuildValue(ev.id, ev.rev)>>>>
            IN clear_guild(d, ev.id)
               \o set_all(items)
               \o (IF Some(ttl) /\ sm THEN expire_all(MapSeq(ev.members, mttl)) ELSE <<>>)
      [] ev.kind = "GuildDelete" -> clear_guild(d, ev.id)
      [] ev.kind = "GuildUpdate" -> set(guild_key(ev.id), GuildValue(ev.id, ev.rev))
      [] ev.kind = "MemberAdd" ->
            IF sm
                THEN LET key == member_key(ev.guild_id, ev.user)
                     IN set(key, MemberValue(ev.guild_id, ev.user, ev.rev))
                        \o (IF Some(ttl) THEN expire(key, ttl[1]) ELSE <<>>)
                ELSE <<>>
      [] ev.kind = "MemberRemove" ->
            IF sm THEN del(member_key(ev.guild_id, ev.user)) ELSE <<>>
      [] ev.kind = "MemberUpdate" ->
            member_update(d, ev, sm, ttl)
      [] ev.kind = "MemberChunk" ->
            IF sm
                THEN LET memb(u) == <<member_key(ev.guild_id, u),
                                      MemberValue(ev.guild_id, u, ev.rev)>>
                         mttl(u) == <<member_key(ev.guild_id, u), ttl[1]>>
                     IN set_all(MapSeq(ev.members, memb))
                        \o (IF Some(ttl) THEN expire_all(MapSeq(ev.members, mttl)) ELSE <<>>)
                ELSE <<>>
      [] ev.kind = "Ready" ->
            LET stub(g) == <<guild_key(g), UnavailableGuildValue(g)>>
            IN set(BOT_USER_KEY, UserValue(ev.rev)) \o set_all(MapSeq(ev.guilds, stub))
      [] ev.kind = "RoleCreate" ->
            set(role_key(ev.guild_id, ev.id), RoleValue(ev.id, ev.rev))
      [] ev.kind = "RoleDelete" -> del(role_key(ev.guild_id, ev.id))
      [] ev.kind = "RoleUpdate" ->
            set(role_key(ev.guild_id, ev.id), RoleValue(ev.id, ev.rev))
      [] ev.kind = "UnavailableGuild" ->
            unavailable_guild(d, ev.id)
      [] ev.kind = "UserUpdate" -> set(BOT_USER_KEY, UserValue(ev.rev))
      [] OTHER -> <<>>

-----------------------------------------------------------------------------
(* The store as one value, and the events update is applied to *)

Empty == [x \in {} |-> x]

DB == [kv |-> kv, sets |-> sets, expiry |-> expiry]

Store(d) == /\ kv' = d.kv
            /\ sets' = d.sets
            /\ expiry' = d.expiry

(* the guilds an event is about *)
EventGuilds(ev) ==
    CASE ev.kind \in {"GuildCreate", "GuildDelete", "GuildUpdate", "UnavailableGuild"} -> {ev.id}
      [] ev.kind \in {"ChannelCreate", "ChannelDelete", "ChannelUpdate"} ->
            IF ev.private THEN {} ELSE {ev.guild_id}
      [] ev.kind \in {"MemberAdd", "MemberRemove", "MemberUpdate", "MemberChunk",
                      "RoleCreate", "RoleDelete", "RoleUpdate"} -> {ev.guild_id}
      [] ev.kind = "Ready" -> ev.guilds
      [] OTHER -> {}

(* one completed call of update(conn, event, bot_id) *)
Project(ev) ==
    /\ Store(Run(DB, update(DB, ev, state_member, state_member_ttl)))
    /\ lastDelete' = [g \in Guilds |->
                        IF g \in EventGuilds(ev) THEN ev.kind = "GuildDelete" ELSE lastDelete[g]]
    /\ lastOp' = <<>>
    /\ UNCHANGED <<state_member, state_member_ttl, world, ideal, besidesCache>>

ChannelEvent(kind, c, rev) ==
    IF c \in PrivateChannels
        THEN [kind |-> kind, private |-> TRUE, id |-> c, rev |-> rev]
        ELSE [kind |-> kind, private |-> FALSE, id |-> c, guild_id |-> ChannelGuild(c),
              rev |-> rev]

ChannelCreate ==
    \E c \in world.text \cup world.voice \cup world.private, rev \in Revs :
        Project(ChannelEvent("ChannelCreate", c, rev))

ChannelDelete ==
    \E c \in world.text \cup world.voice \cup world.private :
        Project(ChannelEvent("ChannelDelete", c, FirstRev))

ChannelUpdate ==
    \E c \in world.text \cup world.voice \cup world.private, rev \in Revs :
        Project(ChannelEvent("ChannelUpdate", c, rev))

ChannelsOf(g) == {c \in world.text \cup world.voice : ChannelGuild(c) = g}

GuildCreateEvents ==
    UNION { {[kind |-> "GuildCreate", id |-> g, channels |-> cs, roles |-> rs,
              members |-> ms, rev |-> FirstRev] :
                cs \in SUBSET ChannelsOf(g), rs \in SUBSET world.roles,
                ms \in SUBSET world.users} : g \in world.guilds }

GuildCreate == \E ev \in GuildCreateEvents : Project(ev)

GuildDelete == \E g \in world.guilds : Project([kind |-> "GuildDelete", id |-> g])

GuildUpdate ==
    \E g \in world.guilds : Project([kind |-> "GuildUpdate", id |-> g, rev |-> FirstRev])

MemberAdd ==
    \E g \in world.guilds, u \in world.users :
        Project([kind |-> "MemberAdd", guild_id |-> g, user |-> u, rev |-> FirstRev])

MemberRemove ==
    \E g \in world.guilds, u \in world.users :
        Project([kind |-> "MemberRemove", guild_id |-> g, user |-> u])

MemberUpdate ==
    \E g \in world.guilds, u \in world.users :
        Project([kind |-> "MemberUpdate", guild_id |-> g, user |-> u, rev |-> FirstRev])

MemberChunk ==
    \E g \in world.guilds, ms \in SUBSET world.users :
        Project([kind |-> "MemberChunk", guild_id |-> g, members |-> ms, rev |-> FirstRev])

Ready ==
    \E gs \in SUBSET world.guilds :
        Project([kind |-> "Ready", guilds |-> gs, rev |-> FirstRev])

RoleCreate ==
    \E g \in world.guilds, r \in world.roles :
        Project([kind |-> "RoleCreate", guild_id |-> g, id |-> r, rev |-> FirstRev])

RoleDelete ==
    \E g \in world.guilds, r \in world.roles :
        Project([kind |-> "RoleDelete", guild_id |-> g, id |-> r])

RoleUpdate ==
    \E g \in world.guilds, r \in world.roles :
        Project([kind |-> "RoleUpdate", guild_id |-> g, id |-> r, rev |-> FirstRev])

UnavailableGuild ==
    \E g \in world.guilds : Project([kind |-> "UnavailableGuild", id |-> g])

UserUpdate == Project([kind |-> "UserUpdate", rev |-> FirstRev])

(* time passes: every stored timestamp gets one unit closer to (or further   *)
(* behind) the clock; any negative difference is "in the past"             *)
(* an expiry_keys value that is not a formatted timestamp *)
Unparsable == TTL + 100

(* simd_json::from_str::<FormattedDateTime>: a timestamp for the values expire_all
   writes, an error for any other text *)
from_str(value) == IF value = Unparsable THEN <<>> ELSE <<value>>

(* the entries after one unit of time: stored timestamps are kept relative to now *)
later(entries) ==
    [k \in DOMAIN entries |->
        IF Some(from_str(entries[k])) /\ entries[k] >= 0 THEN entries[k] - 1 ELSE entries[k]]

Tick ==
    /\ \E k \in DOMAIN expiry : Some(from_str(expiry[k])) /\ expiry[k] >= 0
    /\ expiry' = later(expiry)
    /\ UNCHANGED <<kv, sets, state_member, state_member_ttl, world, ideal, lastDelete, lastOp, besidesCache>>

(* the keys a scan finds expired: (timestamp - now).is_negative() *)
Expired(d) ==
    {k \in DOMAIN d.expiry :
        LET timestamp == from_str(d.expiry[k])
        IN Some(timestamp) /\ timestamp[1] < 0}

(* a scan that deletes the expired keys but leaves their expiry_keys entries *)
run_cleanups_keep_entries(d) == del_all(SetToSeq(Expired(d)))

(* run_cleanups: one scan of the janitor *)
run_cleanups(d) ==
    LET keys == SetToSeq(Expired(d))
    IN del_all(keys) \o del_hashmap(keys)

Cleanup ==
    /\ Store(Run(DB, run_cleanups(DB)))
    /\ lastOp' = IF Expired(DB) = {} THEN <<>>
                 ELSE <<[op |-> "cleanup", keys |-> Expired(DB)]>>
    /\ UNCHANGED <<state_member, state_member_ttl, world, ideal, lastDelete, besidesCache>>

CacheInit ==
    /\ kv = Empty
    /\ sets = Empty
    /\ expiry = Empty
    /\ state_member \in BOOLEAN
    /\ state_member_ttl \in {<<>>, <<TTL>>}
    /\ world \in Worlds
    /\ lastDelete = [g \in Guilds |-> FALSE]
    /\ lastOp = <<>>
    /\ ideal = [kv |-> Empty, sets |-> Empty, expiry |-> Empty]

CacheNext ==
    \/ ChannelCreate \/ ChannelDelete \/ ChannelUpdate
    \/ GuildCreate \/ GuildDelete \/ GuildUpdate
    \/ MemberAdd \/ MemberRemove \/ MemberUpdate \/ MemberChunk
    \/ Ready
    \/ RoleCreate \/ RoleDelete \/ RoleUpdate
    \/ UnavailableGuild \/ UserUpdate
    \/ Tick \/ Cleanup

-----------------------------------------------------------------------------
(* handler.rs: outgoing, the pump of one cluster's event stream *)

EXCHANGE == "gateway"

Shards == {0, 1}
EventTypes == {"MESSAGE_CREATE", "GUILD_CREATE"}
MaxEvents == 2
MemberChannelCap == 1
MemberRequestDelay == 2
MaxLate == 1

(* ShardPayload bytes: JSON that is not a payload, or {op, s, t, d} *)
PayloadBytes ==
    {[valid |-> FALSE]}
    \cup {[valid |-> TRUE, op |-> 0, s |-> 7, t |-> <<t>>, d |-> 1] : t \in EventTypes}
    \cup {[valid |-> TRUE, op |-> 11, s |-> 0, t |-> <<>>, d |-> 0]}

PumpEvents ==
    {[kind |-> "GatewayHello"], [kind |-> "Ready"], [kind |-> "GuildCreate", id |-> 1]}
    \cup {[kind |-> "ShardPayload", bytes |-> b] : b \in PayloadBytes}

(* serde_json::from_slice::<PayloadInfo>: keeps op, t, d *)
from_slice(bytes) ==
    IF bytes.valid THEN <<[op |-> bytes.op, t |-> bytes.t, d |-> bytes.d]>> ELSE <<>>

(* serde_json::to_vec(&payload): the wire body {op, t, d}; serializing an op code, an
   optional string and an owned JSON value has no failing case *)
to_vec(payload) == <<[valid |-> TRUE, op |-> payload.op, t |-> payload.t, d |-> payload.d]>>

Last(q) == q[Len(q)]

(* where the loop goes once an item is taken: the cache update comes first *)
after_take_handle == "handle"

after_take == "update"

(* where the loop goes once the update has resolved: every arm falls through *)
after_update_skip_failed(res) == IF res = "ok" THEN "handle" ELSE "next"

after_update(res) == "handle"

(* when events.next() is polled: only at the top of the loop *)
can_take_while_handling == pc \in {"next", "handle"}

can_take == pc = "next"

(* the routing key handed to basic_publish *)
routing_key_fixed(payload) == CHOOSE t \in EventTypes : TRUE

routing_key(payload) == payload.t[1]

(* events.next().await yields an item *)
PumpTake ==
    /\ can_take
    /\ Len(stream) < MaxEvents
    /\ \E shard \in Shards, event \in PumpEvents :
            stream' = Append(stream, [shard |-> shard, event |-> event])
    /\ pc' = after_take
    /\ proj' = "running"
    /\ UNCHANGED <<finished, published, broker, gateway_events, shard_events, tx, requests>>
    /\ UNCHANGED <<besidesPump, pacerVars>>

(* events.next().await yields None *)
StreamEnd ==
    /\ pc = "next"
    /\ pc' = "done"
    /\ UNCHANGED <<stream, proj, finished, published, broker, gateway_events, shard_events,
                   tx, requests>>
    /\ UNCHANGED <<besidesPump, pacerVars>>

(* timeout(update_time, cache.update(&event)).await resolves *)
UpdateDone ==
    /\ pc = "update"
    /\ \E res \in {"ok", "err", "timeout"} :
            /\ proj' = res
            /\ pc' = after_update(res)
    /\ UNCHANGED <<stream, finished, published, broker, gateway_events, shard_events, tx,
                   requests>>
    /\ UNCHANGED <<besidesPump, pacerVars>>

Current == Last(stream)

(* the loop ends at the first arm that logged a failure *)
after_arm_stop_on_failure(result) == IF result = "ok" THEN "next" ELSE "done"

(* where the loop goes from the end of a match arm: back to events.next() *)
after_arm(result) == "next"

ArmDone(result) ==
    /\ pc' = after_arm(result)
    /\ finished' = finished + 1
    /\ UNCHANGED <<stream, proj>>
    /\ UNCHANGED <<besidesPump, pacerVars>>

(* arms that only log, and the catch-all arm *)
HandleInfo ==
    /\ pc = "handle"
    /\ Current.event.kind = "GatewayHello"
    /\ ArmDone("ok")
    /\ UNCHANGED <<published, broker, gateway_events, shard_events, tx, requests>>

(* mpsc Sender::send once the channel has room *)
tx_send_lost(q, item) == q

tx_send(q, item) == Append(q, item)

(* Event::GuildCreate: tx.send((e.id, shard)).await waits while the channel is full *)
HandleGuildCreate ==
    /\ pc = "handle"
    /\ Current.event.kind = "GuildCreate"
    /\ Len(tx) < MemberChannelCap
    /\ tx' = tx_send(tx, <<Current.event.id, Current.shard>>)
    /\ ArmDone("ok")
    /\ UNCHANGED <<published, broker, gateway_events, shard_events, requests>>

(* the shard lifecycle arms: SHARD_EVENTS.with_label_values(..).inc() *)
HandleLifecycle ==
    /\ pc = "handle"
    /\ Current.event.kind = "Ready"
    /\ shard_events' = [shard_events EXCEPT ![Current.event.kind] = @ + 1]
    /\ ArmDone("ok")
    /\ UNCHANGED <<published, broker, gateway_events, tx, requests>>

(* Event::ShardPayload *)
HandlePayload ==
    /\ pc = "handle"
    /\ Current.event.kind = "ShardPayload"
    /\ LET payload == from_slice(Current.event.bytes)
       IN IF payload = <<>>
            THEN /\ UNCHANGED <<gateway_events, published, broker>>
                 /\ ArmDone("decode")
          ELSE IF payload[1].t = <<>>
            THEN /\ UNCHANGED <<gateway_events, published, broker>>
                 /\ ArmDone("ok")
          ELSE LET kind == payload[1].t[1]
                   body == to_vec(payload[1])
               IN /\ gateway_events' =
                        [gateway_events EXCEPT ![<<kind, Current.shard>>] = @ + 1]
                  /\ IF body = <<>>
                        THEN /\ UNCHANGED <<published, broker>>
                             /\ ArmDone("serialize")
                        ELSE LET msg == [exchange |-> EXCHANGE,
                                         routing_key |-> routing_key(payload[1]),
                                         payload |-> body[1], n |-> Len(stream)]
                             IN /\ published' = Append(published, msg)
                                /\ \E ok \in BOOLEAN :
                                    /\ broker' = IF ok THEN Append(broker, msg) ELSE broker
                                    /\ ArmDone(IF ok THEN "ok" ELSE "publish")
    /\ UNCHANGED <<shard_events, tx, requests>>

(* the member request task: rx.recv() *)
MemberRecv ==
    /\ held = <<>>
    /\ tx # <<>>
    /\ held' = <<Head(tx)>>
    /\ tx' = Tail(tx)
    /\ UNCHANGED <<pc, stream, proj, finished, published, broker, gateway_events,
                   shard_events, requests, tick_in, since>>
    /\ UNCHANGED besidesPump

(* MissedTickBehavior: the deadline after a tick that fired late *)
missed_tick_burst(late_by, period) == period - late_by

missed_tick_delay(late_by, period) == period

(* Interval::poll_tick: the next deadline, relative to the time the tick fires *)
next_timeout(deadline, period) ==
    IF deadline < 0 THEN missed_tick_delay(0 - deadline, period) ELSE deadline + period

(* the member request task: interval.tick() completes and member_cluster.command is
   called; a failed command is only logged *)
MemberIssue ==
    /\ held # <<>>
    /\ tick_in <= 0
    /\ \E ok \in BOOLEAN :
            requests' = Append(requests, [guild |-> held[1][1], shard |-> held[1][2],
                                          gap |-> since, late |-> 0 - tick_in, ok |-> ok])
    /\ held' = <<>>
    /\ tick_in' = next_timeout(tick_in, MemberRequestDelay)
    /\ since' = 0
    /\ UNCHANGED <<pc, stream, proj, finished, published, broker, gateway_events,
                   shard_events, tx>>
    /\ UNCHANGED besidesPump

(* time passes *)
PacerTick ==
    /\ tick_in > 0 - MaxLate \/ since < MemberRequestDelay
    /\ tick_in' = IF tick_in > 0 - MaxLate THEN tick_in - 1 ELSE tick_in
    /\ since' = IF since < MemberRequestDelay THEN since + 1 ELSE since
    /\ UNCHANGED <<pc, stream, proj, finished, published, broker, gateway_events,
                   shard_events, tx, requests, held>>
    /\ UNCHANGED besidesPump

-----------------------------------------------------------------------------
(* utils.rs: the admission queues LocalQueue and LargeBotQueue and their     *)
(* waiter tasks.  Time is discrete; a waiter that can release a request     *)
(* does so before the clock moves on.                                      *)

WaitDuration == 2
MaxTime == 4
MaxRequests == 3
QueueShards == {0, 1, 2}
Concurrencies == {1, 2}

Buckets == 0..(concurrency - 1)

(* LargeBotQueue::request: shard_id[0] % self.0.len() *)
bucket_first(shard_id) == shard_id - shard_id

bucket(shard_id) == shard_id % concurrency

(* waiter: sleep(duration) after each release *)
waiter_no_sleep(duration) == duration - duration

waiter_sleep(duration) == duration

(* waiter: rx.recv() yields the oldest request in the channel *)
recv_newest(q) == Len(q)

recv(q) == Len(q) - Len(q) + 1

(* self.0.clone().send(tx) succeeds while the receiver is held *)
send_ok_always(b) == TRUE

send_ok(b) == alive[b]

Requested == Len(completed) + Len(queues[0]) + (IF concurrency > 1 THEN Len(queues[1]) ELSE 0)

Completion(req, how) ==
    [id |-> req.id, shard |-> req.shard, bucket |-> req.bucket, at |-> req.at,
     time |-> clock, how |-> how]

(* the body of request once the bucket is chosen *)
request(shard_id, b) ==
    LET req == [id |-> Requested + 1, shard |-> shard_id, bucket |-> b, at |-> clock,
                live |-> TRUE]
    IN  /\ Requested < MaxRequests
        /\ IF send_ok(b)
             THEN /\ queues' = [queues EXCEPT ![b] = Append(@, req)]
                  /\ UNCHANGED completed
             ELSE /\ completed' = Append(completed, Completion(req, "send_failed"))
                  /\ UNCHANGED queues
        /\ UNCHANGED <<concurrency, clock, wake, alive>>
        /\ UNCHANGED besidesQueue

(* LocalQueue::request: the shard id is ignored *)
LocalRequest ==
    /\ concurrency = 1
    /\ \E shard_id \in QueueShards : request(shard_id, 0)

(* LargeBotQueue::request *)
LargeBotRequest ==
    /\ concurrency # 1
    /\ \E shard_id \in QueueShards : request(shard_id, bucket(shard_id))

RemoveAt(q, i) == SubSeq(q, 1, i - 1) \o SubSeq(q, i + 1, Len(q))

(* the waiter holds on to a request until its send succeeds *)
moves_on_when_sent(req) == req.live

(* waiter: a failed req.send(()) only warns, the loop goes on to the sleep *)
moves_on(req) == TRUE

(* req.send(()) reaches the requester unless the request future was dropped *)
send_result(req) == IF req.live THEN "admitted" ELSE "abandoned"

(* waiter: one turn of the loop, up to the start of the sleep *)
waiter(b) ==
    /\ alive[b]
    /\ wake[b] = 0
    /\ queues[b] # <<>>
    /\ LET i == recv(queues[b])
       IN /\ moves_on(queues[b][i])
          /\ completed' = Append(completed, Completion(queues[b][i], send_result(queues[b][i])))
          /\ queues' = [queues EXCEPT ![b] = RemoveAt(@, i)]
    /\ wake' = [wake EXCEPT ![b] = waiter_sleep(WaitDuration)]
    /\ UNCHANGED <<concurrency, clock, alive>>
    /\ UNCHANGED besidesQueue

Waiter == \E b \in Buckets : waiter(b)

(* the waiter task ends and drops its receiver: the queued oneshot senders are
   dropped with it, so the requests awaiting them return *)
WaiterGone ==
    \E b \in Buckets :
        /\ alive[b]
        /\ alive' = [alive EXCEPT ![b] = FALSE]
        /\ completed' = completed \o [i \in 1..Len(queues[b]) |-> Completion(queues[b][i], "dropped")]
        /\ queues' = [queues EXCEPT ![b] = <<>>]
        /\ wake' = [wake EXCEPT ![b] = 0]
        /\ UNCHANGED <<concurrency, clock>>
        /\ UNCHANGED besidesQueue

QueueTick ==
    /\ clock < MaxTime
    /\ \A b \in Buckets : ~(alive[b] /\ wake[b] = 0 /\ queues[b] # <<>>)
    /\ clock' = clock + 1
    /\ wake' = [b \in Buckets |-> IF wake[b] > 0 THEN wake[b] - 1 ELSE 0]
    /\ UNCHANGED <<concurrency, queues, alive, completed>>
    /\ UNCHANGED besidesQueue

(* get_queue / LocalQueue::new / LargeBotQueue::new *)
QueueStart ==
    /\ clock = 0
    /\ queues = [b \in Buckets |-> <<>>]
    /\ wake = [b \in Buckets |-> 0]
    /\ alive = [b \in Buckets |-> TRUE]
    /\ completed = <<>>

QueueIdle ==
    /\ concurrency = 1
    /\ QueueStart

QueueNext == LocalRequest \/ LargeBotRequest \/ Waiter \/ WaiterGone \/ QueueTick

(* the requester drops the future returned by request while it awaits rx: the oneshot
   receiver is dropped with it *)
Abandon ==
    \E b \in Buckets :
        \E i \in 1..Len(queues[b]) :
            /\ queues[b][i].live
            /\ queues' = [queues EXCEPT ![b][i].live = FALSE]
            /\ UNCHANGED <<concurrency, clock, wake, alive, completed>>
            /\ UNCHANGED besidesQueue

(* time passing in runs of unbounded length: the sleeps count down, the clock reading
   is not kept *)
QueueSleep ==
    /\ \E b \in Buckets : wake[b] > 0
    /\ \A b \in Buckets : ~(alive[b] /\ wake[b] = 0 /\ queues[b] # <<>>)
    /\ wake' = [b \in Buckets |-> IF wake[b] > 0 THEN wake[b] - 1 ELSE 0]
    /\ UNCHANGED <<concurrency, clock, queues, alive, completed>>
    /\ UNCHANGED besidesQueue

QueueLiveNext ==
    LocalRequest \/ LargeBotRequest \/ Waiter \/ WaiterGone \/ Abandon \/ QueueSleep

-----------------------------------------------------------------------------
(* utils.rs: the startup functions get_clusters and get_resume_sessions *)

SHARDS_KEY == "gateway_shards"
SESSIONS_KEY == "gateway_sessions"

MaxStart == 1
MaxOwned == 4
MaxClusters == 3

(* u64 keys of gateway_sessions as written (to_string) and as read back (parse) *)
ShardStrings == <<"0", "1", "2", "3", "4", "5", "6">>

to_string(n) == ShardStrings[n + 1]

parse(k) == (CHOOSE i \in 1..Len(ShardStrings) : ShardStrings[i] = k) - 1

get_shards(cfg) == cfg.shards_end - cfg.shards_start + 1

(* the last shard of cluster i *)
cluster_end_even(i, extra, last_index, base) == last_index + base - 1

cluster_end(i, extra, last_index, base) ==
    IF i < extra THEN last_index + base ELSE last_index + base - 1

RECURSIVE cluster_loop(_, _, _, _, _)
cluster_loop(cfg, i, last_index, base, extra) ==
    IF i >= cfg.clusters THEN <<>>
    ELSE LET index == cluster_end(i, extra, last_index, base)
         IN <<[from |-> last_index, to |-> index, total |-> cfg.shards_total]>>
            \o cluster_loop(cfg, i + 1, index + 1, base, extra)

(* the ShardScheme::Range of every cluster, in the order built *)
get_clusters(cfg) ==
    LET shards == get_shards(cfg)
        base == shards \div cfg.clusters
        extra == shards % cfg.clusters
    IN cluster_loop(cfg, 0, cfg.shards_start, base, extra)

NoSessions == [k \in {} |-> k]

get_resume_sessions_any_shards(cfg, db) ==
    IF ~cfg.resume THEN NoSessions
    ELSE LET sessions == IF db.sessions = <<>> THEN NoSessions ELSE db.sessions[1]
         IN [n \in {parse(k) : k \in DOMAIN sessions} |->
                [session_id |-> sessions[to_string(n)].session_id,
                 sequence |-> sessions[to_string(n)].sequence]]

get_resume_sessions(cfg, db) ==
    LET shards == IF db.shards = <<>> THEN 0 ELSE db.shards[1]
    IN IF shards # cfg.shards_total \/ ~cfg.resume THEN NoSessions
       ELSE LET sessions == IF db.sessions = <<>> THEN NoSessions ELSE db.sessions[1]
            IN [n \in {parse(k) : k \in DOMAIN sessions} |->
                    [session_id |-> sessions[to_string(n)].session_id,
                     sequence |-> sessions[to_string(n)].sequence]]

Configs ==
    {[shards_start |-> a, shards_end |-> a + n - 1, shards_total |-> a + n + more,
      clusters |-> c, resume |-> r] :
        a \in 0..MaxStart, n \in 1..MaxOwned, more \in {0, 1}, c \in 1..MaxClusters,
        r \in BOOLEAN}

SessionInfo(shard) == [session_id |-> <<"session", shard>>, sequence |-> 40 + shard]

SessionMaps ==
    {[k \in {to_string(n) : n \in S} |-> SessionInfo(parse(k))] : S \in {{}, {0}, {0, 1}}}

Stores(cfg) ==
    {[shards |-> sh, sessions |-> se] :
        sh \in {<<>>, <<cfg.shards_total>>, <<cfg.shards_total + 1>>},
        se \in {<<>>} \cup {<<m>> : m \in SessionMaps}}

GetClusters ==
    /\ clusters = <<>>
    /\ clusters' = <<get_clusters(config)>>
    /\ UNCHANGED <<config, stored, resumes>>
    /\ UNCHANGED besidesStart

GetResumeSessions ==
    /\ resumes = <<>>
    /\ clusters = <<>>
    /\ resumes' = <<get_resume_sessions(config, stored)>>
    /\ UNCHANGED <<config, stored, clusters>>
    /\ UNCHANGED besidesStart

StartIdle ==
    /\ config = CHOOSE cfg \in Configs :
                    cfg.shards_start = 0 /\ cfg.shards_end = 3 /\ cfg.shards_total = 4
                    /\ cfg.clusters = 2 /\ cfg.resume
    /\ stored = [shards |-> <<>>, sessions |-> <<>>]
    /\ clusters = <<>>
    /\ resumes = <<>>

StartNext == GetClusters \/ GetResumeSessions

-----------------------------------------------------------------------------
(* handler.rs: incoming, the command router consuming gateway.send *)

QUEUE_SEND == "gateway.send"

MaxDeliveries == 2
MaxConsumeErrors == 1

(* the clusters handed to incoming: those get_clusters builds for shards 0..3 of 4
   in two clusters *)
RouterClusters ==
    get_clusters([shards_start |-> 0, shards_end |-> 3, shards_total |-> 4,
                  clusters |-> 2, resume |-> TRUE])

(* delivery bodies: bytes that are no DeliveryInfo, or {op, shard, data} *)
DeliveryBodies ==
    {[valid |-> FALSE]}
    \cup {[valid |-> TRUE, op |-> op, shard |-> sh, data |-> d] :
            op \in {"Send", "Reconnect"}, sh \in 0..4, d \in {<<>>, <<"presence">>}}

(* cluster.shard(shard).is_some() *)
has_shard(cluster, shard) == shard >= cluster.from /\ shard <= cluster.to

(* clusters.iter().find(..): the position of the first cluster holding the shard *)
find_cluster_first(cs, shard) == <<Len(cs) - Len(cs) + 1>>

find_cluster(cs, shard) ==
    LET owners == {i \in 1..Len(cs) : has_shard(cs[i], shard)}
    IN IF owners = {} THEN <<>> ELSE <<CHOOSE i \in owners : \A j \in owners : i <= j>>

(* payload.data.unwrap_or_default(): serde_json::Value::Null when absent *)
unwrap_or_default(data) == IF data = <<>> THEN "null" ELSE data[1]

(* the call made for a decoded payload on its cluster *)
dispatch_all_as_command(payload, cluster, tag) ==
    <<[cluster |-> cluster, call |-> "command", shard |-> payload.shard,
       data |-> unwrap_or_default(payload.data), tag |-> tag]>>

dispatch(payload, cluster, tag) ==
    IF payload.op = "Send"
      THEN <<[cluster |-> cluster, call |-> "command", shard |-> payload.shard,
              data |-> unwrap_or_default(payload.data), tag |-> tag]>>
      ELSE <<[cluster |-> cluster, call |-> "shutdown", shard |-> payload.shard,
              data |-> "none", tag |-> tag]>>

(* where the loop goes once a delivery is received: basic_ack comes first *)
after_receive_decode == "decode"

after_receive == "ack"

(* a delivery whose command failed is dispatched again *)
after_delivery_retry(outcome) == IF outcome = "command" THEN "decode" ELSE "next"

(* where the loop goes from the end of the match on a consumer item *)
after_delivery(outcome) == "next"

(* warn!(..) of the router: nothing is logged for an item handled without failure *)
warn(log, outcome, tag) ==
    IF outcome = "ok" THEN log ELSE Append(log, [kind |-> outcome, tag |-> tag])

ConsumeErrors == Cardinality({i \in 1..Len(warnings) : warnings[i].kind = "consume"})

(* consumer.next().await yields Ok((channel, delivery)) *)
RouterReceive ==
    /\ rpc = "next"
    /\ Len(deliveries) < MaxDeliveries
    /\ \E body \in DeliveryBodies : deliveries' = Append(deliveries, body)
    /\ rpc' = after_receive
    /\ UNCHANGED <<acks, calls, warnings>>
    /\ UNCHANGED besidesRouter

(* consumer.next().await yields Err(err) *)
RouterConsumeError ==
    /\ rpc = "next"
    /\ ConsumeErrors < MaxConsumeErrors
    /\ warnings' = warn(warnings, "consume", Len(deliveries))
    /\ rpc' = after_delivery("consume")
    /\ UNCHANGED <<deliveries, acks, calls>>
    /\ UNCHANGED besidesRouter

(* channel.basic_ack(delivery.delivery_tag, ..).await; its result is discarded *)
RouterAck ==
    /\ rpc = "ack"
    /\ acks' = Append(acks, Len(deliveries))
    /\ rpc' = "decode"
    /\ UNCHANGED <<deliveries, calls, warnings>>
    /\ UNCHANGED besidesRouter

(* serde_json::from_slice::<DeliveryInfo> and the match on its result *)
RouterDispatch ==
    /\ rpc = "decode"
    /\ LET tag == Len(deliveries)
           body == deliveries[tag]
           cluster == IF body.valid THEN find_cluster(RouterClusters, body.shard) ELSE <<>>
       IN \E sent \in BOOLEAN :     \* the result of cluster.command(..)
            LET outcome ==
                    IF ~body.valid THEN "decode"
                    ELSE IF cluster = <<>> THEN "shard"
                    ELSE IF dispatch(body, cluster[1], tag)[1].call = "command" /\ ~sent
                        THEN "command"
                    ELSE "ok"
            IN /\ calls' = IF outcome \in {"decode", "shard"} THEN calls
                           ELSE calls \o dispatch(body, cluster[1], tag)
               /\ warnings' = warn(warnings, outcome, tag)
               /\ rpc' = after_delivery(outcome)
    /\ UNCHANGED <<deliveries, acks>>
    /\ UNCHANGED besidesRouter

RouterStart ==
    /\ rpc = "next"
    /\ deliveries = <<>>
    /\ acks = <<>>
    /\ calls = <<>>
    /\ warnings = <<>>

RouterNext == RouterReceive \/ RouterConsumeError \/ RouterAck \/ RouterDispatch

PumpStart ==
    /\ pc = "next"
    /\ stream = <<>>
    /\ proj = "none"
    /\ finished = 0
    /\ published = <<>>
    /\ broker = <<>>
    /\ gateway_events = [l \in EventTypes \X Shards |-> 0]
    /\ shard_events = [l \in {"Ready"} |-> 0]
    /\ tx = <<>>
    /\ requests = <<>>
    /\ held = <<>>
    /\ tick_in = 0
    /\ since = MemberRequestDelay

PumpNext ==
    \/ PumpTake \/ StreamEnd \/ UpdateDone
    \/ HandleInfo \/ HandleGuildCreate \/ HandleLifecycle \/ HandlePayload
    \/ MemberRecv \/ MemberIssue \/ PacerTick

vars == <<cacheVars, besidesCache>>

CacheFixed ==
    /\ CacheInit
    /\ state_member
    /\ state_member_ttl = <<>>
    /\ world = CHOOSE w \in Worlds : w.users # {}

Init == CacheInit /\ PumpStart /\ QueueIdle /\ StartIdle /\ RouterStart
Next == CacheNext
Spec == Init /\ [][Next]_vars

PumpInit == CacheFixed /\ PumpStart /\ QueueIdle /\ StartIdle /\ RouterStart

SpecPump == PumpInit /\ [][PumpNext]_vars

(* the pacing task is scheduled and time passes *)
SpecPumpLive ==
    SpecPump /\ WF_vars(MemberRecv) /\ WF_vars(MemberIssue) /\ WF_vars(PacerTick)

QueueInit ==
    /\ CacheFixed
    /\ PumpStart
    /\ StartIdle
    /\ RouterStart
    /\ concurrency \in Concurrencies
    /\ QueueStart

SpecQueue == QueueInit /\ [][QueueNext]_vars

(* the waiter tasks are scheduled and time passes *)
SpecQueueLive ==
    QueueInit /\ [][QueueLiveNext]_vars /\ WF_vars(Waiter) /\ WF_vars(QueueSleep)

StartInit ==
    /\ CacheFixed
    /\ PumpStart
    /\ QueueIdle
    /\ RouterStart
    /\ config \in Configs
    /\ stored \in Stores(config)
    /\ clusters = <<>>
    /\ resumes = <<>>

SpecStart == StartInit /\ [][StartNext]_vars

RouterInit == CacheFixed /\ PumpStart /\ QueueIdle /\ StartIdle /\ RouterStart

SpecRouter == RouterInit /\ [][RouterNext]_vars

-----------------------------------------------------------------------------
(* Direct calls of the store functions set, set_all, del, del_all on keys   *)
(* of every shape the key-parsing rule distinguishes                       *)

MaxBatch == 2

ApiKeys ==
    { guild_key(1), channel_key(1, 11), private_channel_key(11), role_key(1, 20),
      <<MESSAGE_KEY, 11, 900>>, BOT_USER_KEY }

ApiValue(key, rev) == [kind |-> key[1], rev |-> rev]

Batches(S) == UNION {[1..n -> S] : n \in 0..MaxBatch}

ApiSet ==
    \E key \in ApiKeys, rev \in Revs :
        /\ Store(Run(DB, set(key, ApiValue(key, rev))))
        /\ lastOp' = <<[op |-> "set", key |-> key, value |-> ApiValue(key, rev)]>>
        /\ UNCHANGED <<state_member, state_member_ttl, world, ideal, lastDelete, besidesCache>>

ApiDel ==
    \E key \in ApiKeys :
        /\ Store(Run(DB, del(key)))
        /\ lastOp' = <<[op |-> "del", key |-> key]>>
        /\ UNCHANGED <<state_member, state_member_ttl, world, ideal, lastDelete, besidesCache>>

ApiSetAll ==
    \E keys \in Batches(ApiKeys), rev \in Revs :
        /\ Store(Run(DB, set_all([i \in 1..Len(keys) |-> <<keys[i], ApiValue(keys[i], rev)>>])))
        /\ lastOp' = <<>>
        /\ UNCHANGED <<state_member, state_member_ttl, world, ideal, lastDelete, besidesCache>>

ApiDelAll ==
    \E keys \in Batches(ApiKeys) :
        /\ Store(Run(DB, del_all(keys)))
        /\ lastOp' = <<>>
        /\ UNCHANGED <<state_member, state_member_ttl, world, ideal, lastDelete, besidesCache>>

ApiInit == CacheFixed /\ PumpStart /\ QueueIdle /\ StartIdle /\ RouterStart

ApiNext == ApiSet \/ ApiDel \/ ApiSetAll \/ ApiDelAll

SpecApi == ApiInit /\ [][ApiNext]_vars

-----------------------------------------------------------------------------
(* cache.rs: set_all over values that may fail to serialize. The batch is mapped *)
(* to (new_key, json) pairs and collected into an ApiResult before any command.  *)

(* a value whose Serialize implementation returns an error *)
Unserializable == [kind |-> "unserializable", rev |-> 0]

(* simd_json::to_string(&value): the json, or nothing on an error *)
simd_json_to_string(value) == IF value = Unserializable THEN <<>> ELSE <<value>>

(* the pairs before the first failing one are kept and the error is dropped *)
collect_until_error(items) ==
    LET failing == {i \in 1..Len(items) : simd_json_to_string(items[i][2]) = <<>>}
        first == IF failing = {} THEN Len(items) + 1
                 ELSE CHOOSE i \in failing : \A j \in failing : i <= j
    IN <<SubSeq(items, 1, first - 1)>>

(* .collect::<ApiResult<Vec<(String, String)>>>(): the first error is the result *)
collect(items) ==
    IF \E i \in 1..Len(items) : simd_json_to_string(items[i][2]) = <<>>
      THEN <<>>
      ELSE <<items>>

(* the commands set_all issues and what it returns; `?` returns at a failed collect *)
set_all_result(items) ==
    LET keys == collect(items)
    IN IF keys = <<>> THEN [cmds |-> <<>>, result |-> "Err"]
       ELSE [cmds |-> set_all(keys[1]), result |-> "Ok"]

SerializeKeys == {channel_key(1, 11), role_key(1, 20)}

(* lastOp records whether a value of the batch fails to serialize, how many items
   precede the first such value, and the result returned *)
SetAllSerialize ==
    \E keys \in Batches(SerializeKeys), bad \in SUBSET (1..MaxBatch) :
        LET items == [i \in 1..Len(keys) |->
                        <<keys[i], IF i \in bad THEN Unserializable
                                   ELSE ApiValue(keys[i], FirstRev)>>]
            out == set_all_result(items)
            failing == bad \cap (1..Len(keys))
        IN /\ bad \subseteq 1..Len(keys)
           /\ Store(Run(DB, out.cmds))
           /\ lastOp' = <<[op |-> "set_all", failing |-> failing # {},
                           before |-> IF failing = {} THEN Len(keys)
                                      ELSE (CHOOSE i \in failing : \A j \in failing : i <= j) - 1,
                           result |-> out.result]>>
           /\ UNCHANGED <<state_member, state_member_ttl, world, ideal, lastDelete, besidesCache>>

SerializeNext == ApiSet \/ ApiDel \/ SetAllSerialize

SpecSerialize == ApiInit /\ [][SerializeNext]_vars

-----------------------------------------------------------------------------
(* cache.rs: run_jobs, the periodic dump of shard statuses and sessions.     *)
(* The clusters are those of the command router, cluster.info() is modelled *)
(* as holding every shard of the cluster, and last_ack, a wall-clock time,  *)
(* is left out of the status record.                                       *)

STATUSES_KEY == "gateway_statuses"

ClusterShards(c) == {sh \in 0..c.to : sh >= c.from}

AllShards == UNION {ClusterShards(RouterClusters[i]) : i \in 1..Len(RouterClusters)}

(* Information of a shard: stage, latest latency, session id, sequence *)
Infos ==
    {[stage |-> "Connected", latency |-> <<35>>, session_id |-> <<"abc">>, seq |-> 42],
     [stage |-> "Disconnected", latency |-> <<>>, session_id |-> <<>>, seq |-> 0]}

(* the orders in which a HashMap over S can be iterated *)
Orders(S) == {q \in [1..Cardinality(S) -> S] : \A a, b \in DOMAIN q : a # b => q[a] # q[b]}

status_info(shard, info) ==
    [shard |-> shard, status |-> info.stage,
     latency |-> IF info.latency = <<>> THEN 0 ELSE info.latency[1]]

session_info(info) ==
    [session_id |-> IF info.session_id = <<>> THEN "" ELSE info.session_id[1],
     sequence |-> info.seq]

(* statuses.sort_by(|a, b| a.shard.cmp(&b.shard)) *)
sort_by_skipped(q) == q

RECURSIVE sort_by(_)
sort_by(q) ==
    IF q = <<>> THEN <<>>
    ELSE LET least == CHOOSE i \in 1..Len(q) :
                        \A j \in 1..Len(q) : q[i].shard < q[j].shard \/ (q[i].shard = q[j].shard /\ i <= j)
         IN <<q[least]>> \o sort_by(SubSeq(q, 1, least - 1) \o SubSeq(q, least + 1, Len(q)))

RECURSIVE collect_statuses(_, _, _)
collect_statuses(i, infos, orders) ==
    IF i > Len(RouterClusters) THEN <<>>
    ELSE [k \in 1..Len(orders[i]) |-> status_info(orders[i][k], infos[orders[i][k]])]
         \o collect_statuses(i + 1, infos, orders)

(* one turn of the run_jobs loop *)
run_jobs(infos, orders) ==
    LET statuses == sort_by(collect_statuses(1, infos, orders))
        sessions == [k \in {to_string(sh) : sh \in AllShards} |-> session_info(infos[parse(k)])]
    IN set(<<STATUSES_KEY>>, statuses) \o set(<<SESSIONS_KEY>>, sessions)

RunJobs ==
    \E infos \in [AllShards -> Infos] :
        \E orders \in [1..Len(RouterClusters) -> UNION {Orders(ClusterShards(RouterClusters[i])) : i \in 1..Len(RouterClusters)}] :
            /\ \A i \in 1..Len(RouterClusters) : orders[i] \in Orders(ClusterShards(RouterClusters[i]))
            /\ Store(Run(DB, run_jobs(infos, orders)))
            /\ lastOp' = <<[op |-> "dump", infos |-> infos]>>
            /\ UNCHANGED <<state_member, state_member_ttl, world, ideal, lastDelete, besidesCache>>

(* the tracked keys set before a dump *)
JobsSet ==
    \E key \in {guild_key(1), channel_key(1, 11), <<MESSAGE_KEY, 11, 900>>} :
        /\ key \notin DOMAIN kv
        /\ new_key(key) \notin DOMAIN kv
        /\ Store(Run(DB, set(key, ApiValue(key, FirstRev))))
        /\ lastOp' = <<>>
        /\ UNCHANGED <<state_member, state_member_ttl, world, ideal, lastDelete, besidesCache>>

JobsNext == RunJobs \/ JobsSet

SpecJobs == ApiInit /\ [][JobsNext]_vars

-----------------------------------------------------------------------------
(* The session table from dump to restart: run_jobs writes gateway_sessions, and *)
(* the next start reads it back with get_resume_sessions and hands the map to    *)
(* every cluster that get_clusters builds.                                       *)

(* startup: the table is read as the last dump left it *)
ResumeStartup ==
    /\ resumes = <<>>
    /\ clusters = <<>>
    /\ stored' = [stored EXCEPT !.sessions = get(DB, <<SESSIONS_KEY>>)]
    /\ resumes' = <<get_resume_sessions(config, stored')>>
    /\ clusters' = <<get_clusters(config)>>
    /\ UNCHANGED config
    /\ UNCHANGED <<cacheVars, pumpVars, queueVars, routerVars>>

ResumeInit ==
    /\ CacheFixed
    /\ PumpStart
    /\ QueueIdle
    /\ RouterStart
    /\ config = [shards_start |-> 0, shards_end |-> 3, shards_total |-> 4,
                 clusters |-> 2, resume |-> TRUE]
    /\ stored \in {[shards |-> sh, sessions |-> <<>>] : sh \in {<<>>, <<4>>, <<5>>}}
    /\ clusters = <<>>
    /\ resumes = <<>>

ResumeNext == RunJobs \/ JobsSet \/ ResumeStartup

SpecResume == ResumeInit /\ [][ResumeNext]_vars

-----------------------------------------------------------------------------
(* cache.rs: run_cleanups with failing store commands. A scan ends with one of *)
(* the outcomes below; lastOp records the scan and where the loop goes next.   *)

Outcomes == {"ok", "get_hashmap", "del_all", "del_hashmap"}

JanitorKeys == {member_key(1, BotId), member_key(1, 101), member_key(2, 101)}

(* the loop stops at the first failed scan *)
after_scan_stop_on_error(outcome) == IF outcome = "ok" THEN "sleep" ELSE "stopped"

(* every arm of the match falls through to the sleep at the end of the loop body *)
after_scan(outcome) == "sleep"

(* how far a failing del_all got: <<>> when DEL failed, else <<S>> with S the SREMs
   issued before the failing one; the HashMap of index sets is iterated in any order *)
Progress(keys) ==
    LET srems == {i \in 1..Len(del_all(keys)) : i > 1}
    IN {<<>>} \cup {<<S>> : S \in {T \in SUBSET srems : T # srems}}

(* the commands of a failing del_all that reached the store *)
del_all_failed(keys, progress) ==
    LET cmds == del_all(keys)
    IN IF progress = <<>> THEN <<>>
       ELSE <<cmds[1]>> \o MapSeq(progress[1], LAMBDA i : cmds[i])

(* the commands of one scan that reach the store, by outcome *)
run_cleanups_outcome(d, outcome, progress) ==
    LET keys == SetToSeq(Expired(d))
    IN CASE outcome = "ok" -> run_cleanups(d)
         [] outcome = "get_hashmap" -> <<>>
         [] outcome = "del_all" -> del_all_failed(keys, progress)
         [] outcome = "del_hashmap" -> del_all(keys)

JanitorScan ==
    /\ IF lastOp = <<>> THEN TRUE ELSE lastOp[1].then = "scan"
    /\ \E outcome \in Outcomes :
        \E progress \in Progress(SetToSeq(Expired(DB))) :
            /\ outcome \in {"del_all", "del_hashmap"} => Expired(DB) # {}
            /\ outcome # "del_all" => progress = <<>>
            /\ Store(Run(DB, run_cleanups_outcome(DB, outcome, progress)))
            /\ lastOp' = <<[op |-> "cleanup", keys |-> Expired(DB), outcome |-> outcome,
                            after |-> IF lastOp = <<>> THEN "none" ELSE lastOp[1].outcome,
                            then |-> after_scan(outcome)]>>
    /\ UNCHANGED <<state_member, state_member_ttl, world, ideal, lastDelete, besidesCache>>

(* sleep(CACHE_CLEANUP_INTERVAL) at the end of the loop body *)
JanitorSleep ==
    /\ lastOp # <<>>
    /\ lastOp[1].then = "sleep"
    /\ lastOp' = <<[lastOp[1] EXCEPT !.then = "scan"]>>
    /\ expiry' \in {expiry, later(expiry)}
    /\ UNCHANGED <<kv, sets, state_member, state_member_ttl, world, ideal, lastDelete, besidesCache>>

JanitorInit ==
    /\ \E stored_keys \in SUBSET JanitorKeys :
        LET d == Run([kv |-> Empty, sets |-> Empty, expiry |-> Empty],
                     set_all(MapSeq(stored_keys,
                                    LAMBDA k : <<k, MemberValue(k[2], k[3], FirstRev)>>)))
        IN kv = d.kv /\ sets = d.sets
    /\ \E entries \in SUBSET JanitorKeys : expiry \in [entries -> {TTL, 0 - 1, Unparsable}]
    /\ state_member = TRUE
    /\ state_member_ttl = <<TTL>>
    /\ world = CHOOSE w \in Worlds : w.users # {}
    /\ lastDelete = [g \in Guilds |-> FALSE]
    /\ lastOp = <<>>
    /\ ideal = [kv |-> Empty, sets |-> Empty, expiry |-> Empty]
    /\ PumpStart /\ QueueIdle /\ StartIdle /\ RouterStart

JanitorNext == JanitorScan \/ JanitorSleep

SpecJanitor == JanitorInit /\ [][JanitorNext]_vars

-----------------------------------------------------------------------------
(* handler.rs: timeout(update_time, cache.update(&event)) dropping the update *)
(* at one of its awaits, or a store command of the update failing: the       *)
(* commands issued before that point have taken effect, the rest never run.  *)

InterruptedGuild == CHOOSE g \in Guilds : \A h \in Guilds : g <= h
InterruptedRoles == {20}
InterruptedUsers == {101}

InterruptedGuildCreates ==
    {[kind |-> "GuildCreate", id |-> InterruptedGuild, channels |-> {}, roles |-> rs,
      members |-> ms, rev |-> FirstRev] :
        rs \in SUBSET InterruptedRoles, ms \in SUBSET InterruptedUsers}

InterruptedEvents ==
    InterruptedGuildCreates
    \cup {[kind |-> "GuildDelete", id |-> InterruptedGuild]}
    \cup {[kind |-> k, guild_id |-> InterruptedGuild, id |-> r, rev |-> FirstRev] :
            k \in {"RoleCreate"}, r \in InterruptedRoles}
    \cup {[kind |-> k, guild_id |-> InterruptedGuild, user |-> u, rev |-> FirstRev] :
            k \in {"MemberAdd"}, u \in InterruptedUsers}

(* the commands of an update that was dropped after `issued` of them *)
interrupted(cmds, issued) == SubSeq(cmds, 1, issued)

(* an event whose update ran to its end *)
ApplyComplete(ev) ==
    /\ Store(Run(DB, update(DB, ev, state_member, state_member_ttl)))
    /\ ideal' = Run(ideal, update(ideal, ev, state_member, state_member_ttl))
    /\ lastOp' = <<[op |-> "update", ev |-> ev.kind, issued |-> "all"]>>
    /\ UNCHANGED <<state_member, state_member_ttl, world, lastDelete, besidesCache>>

(* an event whose update was dropped or failed partway *)
ApplyInterrupted(ev) ==
    LET cmds == update(DB, ev, state_member, state_member_ttl)
    IN /\ Len(cmds) > 1
       /\ \E issued \in 1..(Len(cmds) - 1) :
            Store(Run(DB, interrupted(cmds, issued)))
       /\ lastOp' = <<[op |-> "update", ev |-> ev.kind, issued |-> "some"]>>
       /\ UNCHANGED <<state_member, state_member_ttl, world, lastDelete, ideal, besidesCache>>

Complete == \E ev \in InterruptedEvents : ApplyComplete(ev)

Interrupted == \E ev \in InterruptedEvents : ApplyInterrupted(ev)

InterruptedInit == CacheFixed /\ PumpStart /\ QueueIdle /\ StartIdle /\ RouterStart

InterruptedNext == Complete \/ Interrupted

SpecInterrupted == InterruptedInit /\ [][InterruptedNext]_vars

-----------------------------------------------------------------------------
(* cache.rs: run_cleanups on its own connection while the pump applies member *)
(* events. A scan reads expiry_keys once and then issues its commands one at  *)
(* a time; lastOp holds the commands the scan has yet to issue and the member *)
(* keys whose expiry entry an event has written since the scan's read.        *)

ScanEvents ==
    {[kind |-> k, guild_id |-> g, user |-> u, rev |-> FirstRev] :
        k \in {"MemberAdd", "MemberUpdate"}, g \in {1}, u \in Users}
    \cup {[kind |-> "MemberChunk", guild_id |-> g, members |-> ms, rev |-> FirstRev] :
            g \in {1}, ms \in SUBSET Users \ {{}}}

(* the expiry_keys fields the commands write *)
HSetKeys(cmds) ==
    UNION {{cmds[j].items[i][1] : i \in 1..Len(cmds[j].items)} :
            j \in {n \in 1..Len(cmds) : cmds[n].op = "HSET"}}

(* get_hashmap(conn, EXPIRY_KEYS) and the loop over its entries *)
ScanRead ==
    /\ lastOp = <<>>
    /\ Expired(DB) # {}
    /\ lastOp' = <<[op |-> "scan", cmds |-> run_cleanups(DB), refreshed |-> {}]>>
    /\ UNCHANGED <<kv, sets, expiry, state_member, state_member_ttl, world, lastDelete, ideal,
                   besidesCache>>

(* the next command of del_all or del_hashmap *)
ScanIssue ==
    /\ lastOp # <<>>
    /\ Store(Apply(DB, Head(lastOp[1].cmds)))
    /\ lastOp' = IF Len(lastOp[1].cmds) = 1 THEN <<>>
                 ELSE <<[lastOp[1] EXCEPT !.cmds = Tail(@)]>>
    /\ UNCHANGED <<state_member, state_member_ttl, world, lastDelete, ideal, besidesCache>>

(* a member event applied by the pump, between two commands of a scan or outside one *)
ScanMemberEvent ==
    \E ev \in ScanEvents :
        LET cmds == update(DB, ev, state_member, state_member_ttl)
        IN /\ Store(Run(DB, cmds))
           /\ lastOp' = IF lastOp = <<>> THEN <<>>
                        ELSE <<[lastOp[1] EXCEPT !.refreshed = @ \cup HSetKeys(cmds)]>>
           /\ UNCHANGED <<state_member, state_member_ttl, world, lastDelete, ideal, besidesCache>>

ScanInit ==
    /\ CacheInit
    /\ state_member
    /\ state_member_ttl = <<TTL>>
    /\ world = CHOOSE w \in Worlds : w.users # {}
    /\ PumpStart /\ QueueIdle /\ StartIdle /\ RouterStart

ScanNext == ScanRead \/ ScanIssue \/ ScanMemberEvent \/ Tick

SpecScan == ScanInit /\ [][ScanNext]_vars

-----------------------------------------------------------------------------
(* Properties of the cache projection *)

GuildKeysSet(g) == <<GUILD_KEY, KEYS_SUFFIX, g>>

(* the stored keys of the channels, roles and members of guild g, and the   *)
(* guild-scoped form of its channel keys                                   *)
GuildEntityKeys(g) ==
    {private_channel_key(c) : c \in {x \in GuildChannels : ChannelGuild(x) = g}}
    \cup {role_key(g, r) : r \in Roles}
    \cup {member_key(g, u) : u \in Users}

GuildScopedChannelKeys(g) ==
    {channel_key(g, c) : c \in {x \in GuildChannels : ChannelGuild(x) = g}}

(* C1: if the last event applied for guild G is GuildDelete, then guild:G   *)
(* and every channel, role and member key of G are absent from the store.  *)
C1_DeletedGuildAbsent ==
    \A g \in Guilds :
        lastDelete[g] =>
            /\ guild_key(g) \notin DOMAIN kv
            /\ \A k \in GuildEntityKeys(g) \cup GuildScopedChannelKeys(g) : k \notin DOMAIN kv

(* a guild that had a channel and a member with a TTL, and was then deleted *)
C1_Witness ==
    /\ lastDelete[1]
    /\ private_channel_key(11) \in Members(DB, GuildKeysSet(1))
    /\ member_key(1, 101) \in DOMAIN expiry

(* C2: after the cascade delete of guild G the index set guild_keys:G is    *)
(* gone, whatever mix of channel, role and member keys it held.            *)
C2_GuildKeysSetGone ==
    \A g \in Guilds : lastDelete[g] => GuildKeysSet(g) \notin DOMAIN sets

(* C3: for every prefix P the members of P_keys are exactly the live stored *)
(* keys with prefix P that have at least two segments.                     *)
C3_PrefixIndexExact ==
    /\ \A k \in DOMAIN kv : Len(k) >= 2 => k \in Members(DB, <<k[1], KEYS_SUFFIX>>)
    /\ \A name \in DOMAIN sets :
            Len(name) = 2 =>
                sets[name] = {k \in DOMAIN kv : Len(k) >= 2 /\ k[1] = name[1]}

(* live keys of two prefixes next to a channel that a cascade delete removed *)
C3_Witness ==
    /\ private_channel_key(13) \in DOMAIN kv
    /\ guild_key(2) \in DOMAIN kv
    /\ private_channel_key(11) \notin DOMAIN kv
    /\ private_channel_key(11) \in Members(DB, GuildKeysSet(1))
    /\ Members(DB, <<CHANNEL_KEY, KEYS_SUFFIX>>) = {private_channel_key(13)}

(* C4: each stored channel, role or member of guild G has its stored key in *)
(* guild_keys:G (for a guild channel the canonical channel:<channel_id>).  *)
C4_GuildIndexComplete ==
    \A g \in Guilds :
        \A k \in GuildEntityKeys(g) :
            k \in DOMAIN kv => k \in Members(DB, GuildKeysSet(g))

C4_Witness ==
    /\ private_channel_key(11) \in DOMAIN kv
    /\ role_key(1, 20) \in DOMAIN kv
    /\ member_key(1, 101) \in DOMAIN kv
    /\ Members(DB, GuildKeysSet(1))
         = {private_channel_key(11), role_key(1, 20), member_key(1, 101)}

(* the keys GuildCreate writes for the guild's entities *)
GuildCreateKeys(ev) ==
    {private_channel_key(c) : c \in ev.channels \cap TextChannels}
    \cup {role_key(ev.id, r) : r \in ev.roles}
    \cup {member_key(ev.id, u) : u \in {x \in ev.members : state_member \/ x = BotId}}

(* C5: applying GuildCreate for guild G, from any prior state, leaves       *)
(* guild_keys:G equal to exactly the keys of the event's text channels,    *)
(* roles and cached members, and every other key of G absent.              *)
C5_GuildCreateExact ==
    [][\A ev \in GuildCreateEvents :
            Project(ev) =>
                /\ Members(DB, GuildKeysSet(ev.id))' = GuildCreateKeys(ev)
                /\ \A k \in GuildEntityKeys(ev.id) \ GuildCreateKeys(ev) :
                        k \notin DOMAIN kv']_vars

(* C6: a value written with set under channel:<gid>:<cid> is read back      *)
(* under channel:<cid>, and a del under either form leaves the channel     *)
(* readable under neither form.                                            *)
C6_ChannelKeyCanonical ==
    \A g \in Guilds, c \in GuildChannels :
        /\ (lastOp # <<>> /\ lastOp[1].op = "set" /\ lastOp[1].key = channel_key(g, c))
                => get(DB, private_channel_key(c)) = <<lastOp[1].value>>
        /\ (lastOp # <<>> /\ lastOp[1].op = "del"
                /\ lastOp[1].key \in {channel_key(g, c), private_channel_key(c)})
                => /\ get(DB, private_channel_key(c)) = <<>>
                   /\ get(DB, channel_key(g, c)) = <<>>

(* the channel was written under the guild-scoped form and deleted under   *)
(* the bare form                                                           *)
C6_Witness ==
    /\ lastOp # <<>>
    /\ lastOp[1].op = "del"
    /\ lastOp[1].key = private_channel_key(11)
    /\ private_channel_key(11) \in Members(DB, GuildKeysSet(1))

-----------------------------------------------------------------------------
(* Properties of the outgoing pump *)

Resolved == {"ok", "err", "timeout"}

TypedPayload(item) ==
    /\ item.event.kind = "ShardPayload"
    /\ item.event.bytes.valid
    /\ item.event.bytes.t # <<>>

(* the message a typed payload at position n of the stream is due *)
ExpectedMessage(item, n) ==
    [exchange |-> "gateway",
     routing_key |-> item.event.bytes.t[1],
     payload |-> [valid |-> TRUE, op |-> item.event.bytes.op, t |-> item.event.bytes.t,
                  d |-> item.event.bytes.d],
     n |-> n]

RECURSIVE ExpectedPublished(_, _)
ExpectedPublished(q, n) ==
    IF n = 0 THEN <<>>
    ELSE IF TypedPayload(q[n])
           THEN Append(ExpectedPublished(q, n - 1), ExpectedMessage(q[n], n))
           ELSE ExpectedPublished(q, n - 1)

(* C7: a publish call is made only while the pump is in the match arm of an event whose
   cache update has already resolved: completed, failed or timed out. *)
C7_PublishAfterProjection ==
    [][published' # published => (pc = "handle" /\ proj \in Resolved)]_vars

C7_Witness ==
    /\ pc = "done"
    /\ proj = "timeout"
    /\ published # <<>>
    /\ Last(published).n = Len(stream)

(* C8: when the cache update of an event failed or timed out, the event is still handled:
   a typed payload is published with the same exchange, routing key and body as after a
   successful update, and a GuildCreate still queues its member request. *)
C8_HandledAfterFailedProjection ==
    (pc = "next" /\ stream # <<>> /\ proj \in {"err", "timeout"}) =>
        /\ TypedPayload(Last(stream)) =>
                /\ published # <<>>
                /\ Last(published) = ExpectedMessage(Last(stream), Len(stream))
        /\ Last(stream).event.kind = "GuildCreate" =>
                <<Last(stream).event.id, Last(stream).shard>>
                    \in Range(tx) \cup Range(held)
                        \cup {<<requests[i].guild, requests[i].shard>> : i \in 1..Len(requests)}

C8_Witness ==
    /\ pc = "next"
    /\ proj = "err"
    /\ TypedPayload(Last(stream))
    /\ Len(published) = 1
    /\ published[1].n = Len(stream)

(* C9: at most one event is in flight, an event is taken only when every earlier event has
   been fully handled, and the broker receives messages in stream order. *)
C9_Sequential ==
    /\ finished = IF pc \in {"update", "handle"} THEN Len(stream) - 1 ELSE Len(stream)
    /\ \A i, j \in 1..Len(broker) : i < j => broker[i].n < broker[j].n
    /\ \A i \in 1..Len(broker) :
            /\ broker[i].n \in 1..finished
            /\ TypedPayload(stream[broker[i].n])
            /\ broker[i] = ExpectedMessage(stream[broker[i].n], broker[i].n)

C9_Witness ==
    /\ Len(broker) = 2
    /\ finished = 2
    /\ stream[1].shard = stream[2].shard
    /\ broker[1].routing_key # broker[2].routing_key

(* C10: over the events handled so far, the publish calls are exactly one per payload that
   decodes with a type, to exchange gateway with that type as routing key, the counter
   gateway_events{type, shard} counts exactly those payloads, and payloads without a type
   leave the publish calls and every counter as they were. *)
C10_PayloadPublish ==
    /\ published = ExpectedPublished(stream, finished)
    /\ \A l \in EventTypes \X Shards :
            gateway_events[l] =
                Cardinality({i \in 1..finished :
                                /\ TypedPayload(stream[i])
                                /\ stream[i].event.bytes.t[1] = l[1]
                                /\ stream[i].shard = l[2]})
    /\ shard_events["Ready"] =
            Cardinality({i \in 1..finished : stream[i].event.kind = "Ready"})

C10_Witness ==
    /\ pc = "next"
    /\ finished = 2
    /\ TypedPayload(stream[1])
    /\ stream[2].event.kind = "ShardPayload"
    /\ stream[2].event.bytes.valid
    /\ stream[2].event.bytes.t = <<>>
    /\ Len(published) = 1
    /\ gateway_events[<<stream[1].event.bytes.t[1], stream[1].shard>>] = 1

-----------------------------------------------------------------------------
(* Properties of the admission queues *)

AdmittedIn(b) == {i \in 1..Len(completed) : completed[i].how = "admitted" /\ completed[i].bucket = b}

(* the admission before admission i in the same bucket, 0 if there is none *)
PrevAdmitted(i) ==
    LET before == {j \in AdmittedIn(completed[i].bucket) : j < i}
    IN IF before = {} THEN 0 ELSE CHOOSE j \in before : \A k \in before : k <= j

Max(a, b) == IF a >= b THEN a ELSE b

(* an admission happens at the time of its request, or wait_duration after the
   admission before it in the same bucket, whichever is later *)
Paced(i) ==
    completed[i].time =
        IF PrevAdmitted(i) = 0 THEN completed[i].at
        ELSE Max(completed[i].at, completed[PrevAdmitted(i)].time + WaitDuration)

(* C11: LocalQueue: two admissions are at least wait_duration apart, and a request is
   admitted at the time it is made unless the admission before it is less than
   wait_duration old, in which case it is admitted wait_duration after that one; requests
   made together are thereby admitted at 0, w, 2w, ... *)
C11_LocalQueuePacing ==
    concurrency = 1 =>
        /\ \A i, j \in AdmittedIn(0) :
                i < j => completed[j].time - completed[i].time >= WaitDuration
        /\ \A i \in AdmittedIn(0) : Paced(i)

C11_Witness ==
    /\ concurrency = 1
    /\ Len(completed) = 3
    /\ \A i \in 1..3 : /\ completed[i].how = "admitted"
                       /\ completed[i].at = 0
                       /\ completed[i].time = (i - 1) * WaitDuration

(* C12: LocalQueue: requests are admitted in the order they were enqueued, and every
   request still waiting was enqueued after every admitted one. *)
C12_LocalQueueFifo ==
    concurrency = 1 =>
        /\ \A i, j \in AdmittedIn(0) : i < j => completed[i].id < completed[j].id
        /\ \A i \in AdmittedIn(0) : \A k \in 1..Len(queues[0]) : completed[i].id < queues[0][k].id
        /\ \A k, l \in 1..Len(queues[0]) : k < l => queues[0][k].id < queues[0][l].id

C12_Witness ==
    /\ concurrency = 1
    /\ Len(completed) = 2
    /\ completed[1].how = "admitted"
    /\ completed[2].how = "admitted"
    /\ completed[1].at = completed[2].at
    /\ completed[1].shard > completed[2].shard
    /\ Len(queues[0]) = 1

(* C13: LargeBotQueue with K buckets: a request for shard s waits in bucket s mod K and
   is paced by the admissions of that bucket alone, admissions of one bucket are at
   least wait_duration apart, and no window of wait_duration holds more than K
   admissions. *)
C13_LargeBotQueuePacing ==
    concurrency > 1 =>
        /\ \A i \in 1..Len(completed) : completed[i].bucket = completed[i].shard % concurrency
        /\ \A b \in Buckets : \A k \in 1..Len(queues[b]) :
                queues[b][k].bucket = b /\ b = queues[b][k].shard % concurrency
        /\ \A b \in Buckets : \A i, j \in AdmittedIn(b) :
                i < j => completed[j].time - completed[i].time >= WaitDuration
        /\ \A b \in Buckets : \A i \in AdmittedIn(b) : Paced(i)
        /\ \A t \in 0..MaxTime :
                Cardinality({i \in UNION {AdmittedIn(b) : b \in Buckets} :
                                completed[i].time >= t /\ completed[i].time < t + WaitDuration})
                    <= concurrency

C13_Witness ==
    /\ concurrency = 2
    /\ Len(completed) = 3
    /\ \A i \in 1..3 : completed[i].how = "admitted" /\ completed[i].at = 0
    /\ completed[1].bucket # completed[2].bucket
    /\ completed[1].time = 0
    /\ completed[2].time = 0
    /\ completed[3].time = WaitDuration

(* C14: a request whose send fails because the bucket's waiter is gone completes at the
   time it is made, without an admission, and no request is left waiting in the channel
   of a waiter that is gone; for LocalQueue and LargeBotQueue alike. *)
C14_SendFailedCompletes ==
    /\ \A i \in 1..Len(completed) :
            completed[i].how = "send_failed" =>
                /\ completed[i].time = completed[i].at
                /\ ~alive[completed[i].bucket]
    /\ \A b \in Buckets : ~alive[b] => queues[b] = <<>>

C14_Witness ==
    /\ concurrency = 2
    /\ alive[0]
    /\ ~alive[1]
    /\ Len(completed) = 2
    /\ completed[1].how = "admitted"
    /\ completed[2].how = "send_failed"
    /\ completed[2].bucket = 1
    /\ wake[0] > 0

-----------------------------------------------------------------------------
(* Properties of the startup functions *)

Owned == config.shards_start..config.shards_end

RangeOf(c) == c.from..c.to

(* C18: the shard ranges built by get_clusters are clusters_count many, start at
   shards_start, end at shards_end, each begins right after the one before it, are
   pairwise disjoint, cover exactly the owned range, and the first (owned mod
   clusters_count) hold floor(owned / clusters_count) + 1 shards, the rest
   floor(owned / clusters_count). *)
C18_ClusterPartition ==
    clusters # <<>> =>
        LET cs == clusters[1]
            n == Len(cs)
            owned == Cardinality(Owned)
        IN /\ n = config.clusters
           /\ cs[1].from = config.shards_start
           /\ cs[n].to = config.shards_end
           /\ \A i \in 1..(n - 1) : cs[i + 1].from = cs[i].to + 1
           /\ \A i, j \in 1..n : i # j => RangeOf(cs[i]) \cap RangeOf(cs[j]) = {}
           /\ UNION {RangeOf(cs[i]) : i \in 1..n} = Owned
           /\ \A i \in 1..n :
                cs[i].to - cs[i].from + 1 =
                    (owned \div n) + (IF i <= owned % n THEN 1 ELSE 0)

C18_Witness ==
    /\ clusters # <<>>
    /\ config.shards_start = 1
    /\ Len(clusters[1]) = 3
    /\ RangeOf(clusters[1][1]) = {1, 2}
    /\ RangeOf(clusters[1][2]) = {3}
    /\ RangeOf(clusters[1][3]) = {4}

(* the stored sessions as a map from shard id to session id and sequence *)
StoredSessions ==
    IF stored.sessions = <<>> THEN NoSessions
    ELSE LET m == stored.sessions[1]
             ids == {n \in 0..(Len(ShardStrings) - 1) : ShardStrings[n + 1] \in DOMAIN m}
         IN [n \in ids |-> [session_id |-> m[ShardStrings[n + 1]].session_id,
                            sequence |-> m[ShardStrings[n + 1]].sequence]]

(* C19: get_resume_sessions returns the stored sessions when the stored gateway_shards
   equals shards_total and resume is enabled, and the empty map in every other case, a
   missing gateway_shards included. *)
C19_ResumeSessions ==
    resumes # <<>> =>
        resumes[1] =
            IF stored.shards = <<config.shards_total>> /\ config.resume
              THEN StoredSessions
              ELSE NoSessions

C19_Witness ==
    /\ resumes # <<>>
    /\ config.resume
    /\ stored.shards = <<config.shards_total>>
    /\ DOMAIN resumes[1] = {0, 1}
    /\ resumes[1][1] = [session_id |-> <<"session", 1>>, sequence |-> 41]

-----------------------------------------------------------------------------
(* Properties of the command router *)

Count(q, x) == Cardinality({i \in 1..Len(q) : q[i] = x})

CallsOf(tag) == SelectSeq(calls, LAMBDA c : c.tag = tag)

(* the deliveries whose turn of the loop is over *)
Routed == IF rpc = "next" THEN 1..Len(deliveries) ELSE 1..(Len(deliveries) - 1)

OwnedBySome(shard) == \E i \in 1..Len(RouterClusters) : shard \in RouterClusters[i].from..RouterClusters[i].to

(* C15: every delivery received is acknowledged exactly once, whatever its body, the
   acknowledgement precedes its decoding and dispatch, and no delivery leads to more
   than one call. *)
C15_AckOnceBeforeDispatch ==
    /\ \A tag \in 1..Len(deliveries) :
            Count(acks, tag) = IF tag = Len(deliveries) /\ rpc = "ack" THEN 0 ELSE 1
    /\ \A i \in 1..Len(calls) : Count(acks, calls[i].tag) = 1
    /\ \A tag \in 1..Len(deliveries) : Len(CallsOf(tag)) <= 1

C15_Witness ==
    /\ rpc = "next"
    /\ acks = <<1, 2>>
    /\ ~deliveries[1].valid
    /\ deliveries[2].valid
    /\ deliveries[2].shard = 4
    /\ calls = <<>>

(* C16: every call goes to the cluster that holds the shard its delivery names, and a
   delivery naming a shard no cluster holds leads to no call on any cluster. *)
C16_DispatchToOwner ==
    /\ \A i \in 1..Len(calls) :
            LET c == calls[i]
            IN /\ deliveries[c.tag].valid
               /\ c.shard = deliveries[c.tag].shard
               /\ c.shard \in RouterClusters[c.cluster].from..RouterClusters[c.cluster].to
    /\ \A tag \in 1..Len(deliveries) :
            (deliveries[tag].valid /\ ~OwnedBySome(deliveries[tag].shard)) => CallsOf(tag) = <<>>

C16_Witness ==
    /\ rpc = "next"
    /\ Len(deliveries) = 2
    /\ deliveries[1].valid
    /\ deliveries[1].shard = 4
    /\ deliveries[2].valid
    /\ deliveries[2].shard = 3
    /\ Len(calls) = 1
    /\ calls[1].cluster = 2
    /\ calls[1].tag = 2

(* C17: a routed Reconnect for a held shard S leads to exactly one call, a shutdown of
   shard S; a routed Send for a held shard S leads to exactly one call, a command to
   shard S carrying the delivery's data, or the default value when it has none. *)
C17_OpcodeDispatch ==
    \A tag \in Routed :
        LET body == deliveries[tag]
        IN (body.valid /\ OwnedBySome(body.shard)) =>
            /\ Len(CallsOf(tag)) = 1
            /\ CallsOf(tag)[1].shard = body.shard
            /\ body.op = "Reconnect" =>
                    /\ CallsOf(tag)[1].call = "shutdown"
                    /\ \A i \in 1..Len(calls) : calls[i].tag = tag => calls[i].call # "command"
            /\ body.op = "Send" =>
                    /\ CallsOf(tag)[1].call = "command"
                    /\ CallsOf(tag)[1].data =
                            IF body.data = <<>> THEN "null" ELSE body.data[1]

C17_Witness ==
    /\ rpc = "next"
    /\ Len(deliveries) = 2
    /\ deliveries[1] = [valid |-> TRUE, op |-> "Reconnect", shard |-> 3, data |-> <<>>]
    /\ deliveries[2] = [valid |-> TRUE, op |-> "Send", shard |-> 0, data |-> <<>>]
    /\ Len(calls) = 2
    /\ calls[1].call = "shutdown"
    /\ calls[2].call = "command"
    /\ calls[2].data = "null"

-----------------------------------------------------------------------------
(* Properties of the expiry janitor *)

SetsHolding(d, k) == {name \in DOMAIN d.sets : k \in d.sets[name]}

Lookup(d, k) == IF k \in DOMAIN d.kv THEN <<d.kv[k]>> ELSE <<>>

(* C20: a janitor scan deletes every key whose expiry timestamp lies in the past, with its
   memberships in the index sets and its entry in expiry_keys, and leaves every key
   whose expiry timestamp is not yet past as it was: value, memberships and entry. *)
C20_ExpiryRoundTrip ==
    [][Cleanup =>
        \A k \in DOMAIN expiry :
            IF expiry[k] < 0
              THEN /\ k \notin DOMAIN kv'
                   /\ k \notin DOMAIN expiry'
                   /\ \A name \in DOMAIN sets' : k \notin sets'[name]
              ELSE /\ k \in DOMAIN expiry'
                   /\ expiry'[k] = expiry[k]
                   /\ Lookup(DB, k)' = Lookup(DB, k)
                   /\ SetsHolding(DB, k)' = SetsHolding(DB, k)]_vars

C20_Witness ==
    /\ lastOp # <<>>
    /\ lastOp[1].op = "cleanup"
    /\ member_key(1, 101) \in lastOp[1].keys
    /\ member_key(1, 101) \notin DOMAIN kv
    /\ member_key(1, 101) \notin DOMAIN expiry
    /\ member_key(1, BotId) \in DOMAIN kv
    /\ member_key(1, BotId) \in DOMAIN expiry
    /\ expiry[member_key(1, BotId)] >= 0

-----------------------------------------------------------------------------
(* Properties of the member request task *)

(* C21: every RequestGuildMembers command is issued at least member_request_delay_ms
   after the one before it, also when the tick it waited for fired late. *)
C21_RequestsPaced ==
    \A i \in 1..Len(requests) : requests[i].gap >= MemberRequestDelay

C21_Witness ==
    /\ Len(requests) = 2
    /\ requests[1].late > 0
    /\ requests[2].late = 0
    /\ requests[2].gap = MemberRequestDelay

RECURSIVE HandledGuildCreates(_)
HandledGuildCreates(n) ==
    IF n = 0 THEN <<>>
    ELSE IF stream[n].event.kind = "GuildCreate"
           THEN Append(HandledGuildCreates(n - 1), <<stream[n].event.id, stream[n].shard>>)
           ELSE HandledGuildCreates(n - 1)

Issued == [i \in 1..Len(requests) |-> <<requests[i].guild, requests[i].shard>>]

RequestsInOrder == Issued \o held \o tx = HandledGuildCreates(finished)

(* C22: the commands issued, followed by the pairs still waiting, are exactly the
   (guild, shard) pairs of the GuildCreate events handled, in the order handled: none
   dropped, none duplicated, whether or not earlier commands failed; and every pair
   waiting is eventually issued. *)
C22_OneRequestPerGuildCreate ==
    /\ []RequestsInOrder
    /\ []<>(tx = <<>> /\ held = <<>>)

C22_Witness ==
    /\ Len(requests) = 2
    /\ ~requests[1].ok
    /\ requests[2].ok
    /\ requests[1].shard # requests[2].shard
    /\ finished = 2
    /\ tx = <<>>
    /\ held = <<>>

-----------------------------------------------------------------------------
(* Properties of the status dump *)

StatusesKey == <<"gateway_statuses">>
SessionsKey == <<"gateway_sessions">>

(* C23: a status dump leaves under gateway_statuses one record per shard of every
   cluster in ascending shard order and under gateway_sessions one entry per shard under
   the shard id as a string, each built from the shard's information at the dump,
   whatever the keys held before, and changes no index set and no other key. *)
C23_StatusDump ==
    [][RunJobs =>
        /\ StatusesKey \in DOMAIN kv'
        /\ SessionsKey \in DOMAIN kv'
        /\ Len(kv'[StatusesKey]) = Cardinality(AllShards)
        /\ \A sh \in AllShards : \E i \in 1..Len(kv'[StatusesKey]) : kv'[StatusesKey][i].shard = sh
        /\ \A i, j \in 1..Len(kv'[StatusesKey]) :
                i < j => kv'[StatusesKey][i].shard < kv'[StatusesKey][j].shard
        /\ \A i \in 1..Len(kv'[StatusesKey]) :
                kv'[StatusesKey][i].status = lastOp'[1].infos[kv'[StatusesKey][i].shard].stage
        /\ DOMAIN kv'[SessionsKey] = {ShardStrings[sh + 1] : sh \in AllShards}
        /\ \A sh \in AllShards :
                kv'[SessionsKey][ShardStrings[sh + 1]].sequence = lastOp'[1].infos[sh].seq
        /\ sets' = sets
        /\ \A k \in DOMAIN kv \cup DOMAIN kv' :
                k \notin {StatusesKey, SessionsKey} => Lookup(DB, k)' = Lookup(DB, k)]_vars

C23_Witness ==
    /\ lastOp # <<>>
    /\ lastOp[1].op = "dump"
    /\ lastOp[1].infos[0].stage = "Disconnected"
    /\ lastOp[1].infos[3].stage = "Connected"
    /\ kv[StatusesKey][1].status = "Disconnected"
    /\ kv[StatusesKey][4].status = "Connected"
    /\ kv[SessionsKey]["3"].session_id = "abc"
    /\ <<GUILD_KEY, KEYS_SUFFIX, 1>> \in DOMAIN sets
    /\ <<MESSAGE_KEY, 11, 900>> \in DOMAIN kv

-----------------------------------------------------------------------------
(* Properties of set followed by del *)

RoundTripKeys ==
    {guild_key(1), channel_key(1, 11), private_channel_key(13), role_key(1, 20),
     member_key(1, 101), <<MESSAGE_KEY, 11, 900>>}

SetThenDel(key) == Run(DB, set(key, ApiValue(key, FirstRev)) \o del(key))

(* C24: for every key whose stored form is absent, set of the key followed by del of
   the same key leaves the stored values and every index set as they were. *)
C24_SetDelRoundTrip ==
    \A key \in RoundTripKeys :
        new_key(key) \notin DOMAIN kv =>
            /\ SetThenDel(key).kv = kv
            /\ SetThenDel(key).sets = sets

-----------------------------------------------------------------------------
(* Properties of single event arms *)

(* C25: applying UnavailableGuild for guild G leaves every channel, role and member key
   of G absent, guild:G present with the stub record of the event, and guild:G a member
   of guild_keys. *)
C25_UnavailableGuildStub ==
    [][\A g \in Guilds :
        Project([kind |-> "UnavailableGuild", id |-> g]) =>
            /\ \A k \in GuildEntityKeys(g) \cup GuildScopedChannelKeys(g) : k \notin DOMAIN kv'
            /\ guild_key(g) \in DOMAIN kv'
            /\ kv'[guild_key(g)] = [kind |-> "guild", id |-> g, unavailable |-> TRUE]
            /\ <<GUILD_KEY, KEYS_SUFFIX>> \in DOMAIN sets'
            /\ guild_key(g) \in sets'[<<GUILD_KEY, KEYS_SUFFIX>>]]_vars

C25_Witness ==
    /\ guild_key(1) \in DOMAIN kv
    /\ kv[guild_key(1)] = [kind |-> "guild", id |-> 1, unavailable |-> TRUE]
    /\ private_channel_key(11) \notin DOMAIN kv
    /\ role_key(1, 20) \notin DOMAIN kv
    /\ private_channel_key(11) \in Members(DB, GuildKeysSet(1))
    /\ role_key(1, 20) \in DOMAIN expiry \/ member_key(1, 101) \in DOMAIN expiry

MemberUpdateEvents ==
    {[kind |-> "MemberUpdate", guild_id |-> g, user |-> u, rev |-> FirstRev] :
        g \in Guilds, u \in Users}

(* C26: MemberUpdate for a member with no stored entry changes no value, no index set
   and no expiry entry; for a stored member it rewrites the value under the same key
   with the event's fields merged in and leaves every other key as it was. *)
C26_MemberUpdateFrame ==
    [][\A ev \in MemberUpdateEvents :
        Project(ev) =>
            LET key == member_key(ev.guild_id, ev.user)
            IN IF key \notin DOMAIN kv
                 THEN kv' = kv /\ sets' = sets /\ expiry' = expiry
                 ELSE /\ key \in DOMAIN kv'
                      /\ kv'[key] = [kv[key] EXCEPT !.rev = ev.rev]
                      /\ DOMAIN kv' = DOMAIN kv
                      /\ \A k \in DOMAIN kv : k # key => kv'[k] = kv[k]]_vars

C26_Witness ==
    /\ ~state_member
    /\ state_member_ttl # <<>>
    /\ member_key(1, BotId) \in DOMAIN kv
    /\ member_key(1, BotId) \in DOMAIN expiry
    /\ member_key(1, 101) \notin DOMAIN kv
    /\ member_key(1, 101) \notin DOMAIN expiry

ChannelDeleteEvents ==
    {ChannelEvent("ChannelDelete", c, FirstRev) :
        c \in TextChannels \cup VoiceChannels \cup PrivateChannels}

(* C27: applying ChannelDelete for a channel that is stored, private or of a guild,
   returns the stored channel value as the old value and leaves the channel absent. *)
C27_ChannelDeleteOld ==
    [][\A ev \in ChannelDeleteEvents :
        (Project(ev) /\ private_channel_key(ev.id) \in DOMAIN kv) =>
            /\ channel_old(DB, ev) = <<kv[private_channel_key(ev.id)]>>
            /\ private_channel_key(ev.id) \notin DOMAIN kv']_vars

-----------------------------------------------------------------------------
(* Properties of the janitor under failures *)

NoEntryOf(keys, d) ==
    \A k \in keys : k \notin DOMAIN d.kv /\ \A name \in DOMAIN d.sets : k \notin d.sets[name]

(* C28: a scan leaves an entry with an unparsable timestamp and its key as they were;
   entries leave expiry_keys only in a scan whose batched delete succeeded, and then
   the expired keys are gone from the store and the index sets; a scan that failed
   leaves expiry_keys as it was, the scan after a failed delete collects the same
   keys again, and the loop goes on after every outcome. *)
C28_JanitorErrors ==
    /\ [][JanitorScan =>
            /\ \A k \in DOMAIN expiry :
                from_str(expiry[k]) = <<>> =>
                    /\ k \in DOMAIN expiry' /\ expiry'[k] = expiry[k]
                    /\ k \in DOMAIN kv => k \in DOMAIN kv' /\ kv'[k] = kv[k]
            /\ expiry' # expiry =>
                /\ lastOp'[1].outcome = "ok"
                /\ DOMAIN expiry' = DOMAIN expiry \ Expired(DB)
                /\ NoEntryOf(Expired(DB), [kv |-> kv', sets |-> sets'])
            /\ lastOp'[1].outcome # "ok" => expiry' = expiry
            /\ lastOp # <<>> /\ lastOp[1].outcome \in {"del_all", "del_hashmap"} =>
                    lastOp[1].keys \subseteq lastOp'[1].keys]_vars
    /\ [](lastOp # <<>> => lastOp[1].then \in {"sleep", "scan"})
    /\ [][lastOp # <<>> /\ lastOp[1].then = "sleep" => JanitorSleep]_vars

C28_Witness ==
    /\ lastOp # <<>>
    /\ lastOp[1].outcome = "ok"
    /\ lastOp[1].after = "del_all"
    /\ member_key(1, 101) \in lastOp[1].keys
    /\ NoEntryOf({member_key(1, 101)}, DB)
    /\ member_key(1, 101) \notin DOMAIN expiry
    /\ member_key(1, BotId) \in DOMAIN expiry
    /\ expiry[member_key(1, BotId)] = Unparsable
    /\ member_key(1, BotId) \in DOMAIN kv

-----------------------------------------------------------------------------
(* Properties of the pump under failures *)

(* C29: the pump leaves an event's cache update only for its match arm, whatever the
   update's result, leaves a match arm only for the top of the loop with the event
   counted as handled, whatever happened in the arm, and ends only from the top of
   the loop, when the stream has ended. *)
C29_PumpContinues ==
    [][/\ (pc = "update" /\ pc' # "update") => (pc' = "handle" /\ proj' \in Resolved)
       /\ (pc = "handle" /\ pc' # "handle") => (pc' = "next" /\ finished' = finished + 1)
       /\ (pc' = "done" /\ pc # "done") => (pc = "next" /\ finished = Len(stream))]_vars

C29_Witness ==
    /\ pc = "next"
    /\ finished = 2
    /\ stream[1].event.kind = "ShardPayload"
    /\ ~stream[1].event.bytes.valid
    /\ TypedPayload(stream[2])
    /\ proj = "timeout"
    /\ Len(published) = 1
    /\ broker = <<>>

-----------------------------------------------------------------------------
(* Properties of the command router under failures *)

WarningsOf(tag) == SelectSeq(warnings, LAMBDA w : w.kind # "consume" /\ w.tag = tag)

(* C30: after a consume error, a body that does not decode, a delivery for a shard no
   cluster holds or a command that failed, the router is back at the top of its loop
   with nothing else changed; deliveries are dispatched one at a time in arrival
   order, and a delivery that failed is logged once and never dispatched again. *)
C30_RouterSurvives ==
    /\ [][/\ (rpc = "decode" /\ (calls' # calls \/ warnings' # warnings)) => rpc' = "next"
          /\ (rpc = "next" /\ warnings' # warnings) =>
                (rpc' = "next" /\ deliveries' = deliveries /\ acks' = acks /\ calls' = calls)]_vars
    /\ [](\A i, j \in 1..Len(calls) : i < j => calls[i].tag < calls[j].tag)
    /\ [](\A tag \in 1..Len(deliveries) :
            /\ Len(WarningsOf(tag)) <= 1
            /\ Len(CallsOf(tag)) <= 1
            /\ tag \in Routed =>
                LET body == deliveries[tag]
                IN IF ~body.valid
                     THEN WarningsOf(tag)[1].kind = "decode" /\ CallsOf(tag) = <<>>
                   ELSE IF ~OwnedBySome(body.shard)
                     THEN WarningsOf(tag)[1].kind = "shard" /\ CallsOf(tag) = <<>>
                   ELSE /\ Len(CallsOf(tag)) = 1
                        /\ WarningsOf(tag) # <<>> =>
                                /\ WarningsOf(tag)[1].kind = "command"
                                /\ CallsOf(tag)[1].call = "command")
    /\ [](rpc \in {"next", "ack", "decode"})

C30_Witness ==
    /\ rpc = "next"
    /\ Len(warnings) = 2
    /\ warnings[1] = [kind |-> "command", tag |-> 1]
    /\ warnings[2] = [kind |-> "consume", tag |-> 1]
    /\ Len(calls) = 2
    /\ calls[2].tag = 2
    /\ calls[2].call = "command"

-----------------------------------------------------------------------------
(* Properties of interrupted projections *)

BelongsTo(key, g) ==
    \/ key = guild_key(g)
    \/ Len(key) = 3 /\ key[1] \in {ROLE_KEY, MEMBER_KEY} /\ key[2] = g

(* what a store holds of guild g: its keys with their values, and for every index set
   the entries that are keys of g *)
GuildView(d, g) ==
    LET entries == UNION {d.sets[n] : n \in DOMAIN d.sets}
    IN [stored |-> [k \in {x \in DOMAIN d.kv : BelongsTo(x, g)} |-> d.kv[k]],
        index |-> {e \in (DOMAIN d.sets) \X entries :
                        e[2] \in d.sets[e[1]] /\ BelongsTo(e[2], g)}]

(* C31: once a GuildCreate for guild G has been applied completely, what the store holds
   of G, keys, values and index set entries, is what it would hold had no update ever
   been interrupted. *)
C31_GuildCreateRepairs ==
    [][\A ev \in InterruptedGuildCreates :
        ApplyComplete(ev) =>
            GuildView([kv |-> kv', sets |-> sets'], ev.id) = GuildView(ideal', ev.id)]_vars

-----------------------------------------------------------------------------
(* Properties of the admission queues over unbounded runs *)

Waiting(id) == \E b \in Buckets : \E i \in 1..Len(queues[b]) : queues[b][i].id = id

Done(id) == \E i \in 1..Len(completed) : completed[i].id = id

(* the requests of a bucket leave its queue in the order they entered it *)
InTurn ==
    \A i, j \in 1..Len(completed) :
        (/\ i < j
         /\ completed[i].bucket = completed[j].bucket
         /\ completed[i].how \in {"admitted", "abandoned"}
         /\ completed[j].how \in {"admitted", "abandoned"}) => completed[i].id < completed[j].id

(* no request is admitted while an earlier request of its bucket is still queued *)
NoneOvertaken ==
    \A i \in 1..Len(completed) :
        completed[i].how = "admitted" =>
            \A b \in Buckets : \A k \in 1..Len(queues[b]) :
                b = completed[i].bucket => queues[b][k].id > completed[i].id

(* C32: every queued request eventually leaves the queue, admitted by the waiter,
   passed over if its requester dropped it, or released when the waiter stopped;
   requests of a bucket are admitted in the order they were queued, and none is
   admitted while an earlier one of its bucket still waits. *)
C32_RequestsComplete ==
    /\ \A id \in 1..MaxRequests : Waiting(id) ~> Done(id)
    /\ []InTurn
    /\ []NoneOvertaken

C32_Witness ==
    /\ Len(completed) = 3
    /\ completed[1].how = "abandoned"
    /\ completed[2].how = "admitted"
    /\ completed[3].how = "dropped"
    /\ completed[1].bucket = completed[2].bucket
    /\ completed[2].bucket = completed[3].bucket

-----------------------------------------------------------------------------
(* Properties of a scan running beside the pump *)

(* C33: no command of a scan removes the key or the expiry entry of a member whose
   entry an event has written since the scan's read and that is still in the future. *)
C33_RefreshSurvivesScan ==
    [][ScanIssue =>
        \A k \in lastOp[1].refreshed :
            (k \in DOMAIN kv /\ k \in DOMAIN expiry /\ expiry[k] >= 0) =>
                (k \in DOMAIN kv' /\ k \in DOMAIN expiry')]_vars

-----------------------------------------------------------------------------
(* Properties of the cascade delete's frame *)

CascadeEvents ==
    GuildCreateEvents
    \cup {[kind |-> k, id |-> g] : k \in {"GuildDelete", "UnavailableGuild"}, g \in Guilds}

(* the keys a store can hold that are no key of guild g: the keys of the other
   guilds and the private channels *)
Outside(g) ==
    UNION {{guild_key(h)} \cup GuildEntityKeys(h) : h \in Guilds \ {g}}
    \cup {private_channel_key(c) : c \in PrivateChannels}

(* what every cascade event for a guild leaves behind, read off the next state alone;
   it narrows the steps on which the whole update has to be compared *)
CascadeMark(ev) ==
    /\ lastOp' = <<>>
    /\ lastDelete'[ev.id] = (ev.kind = "GuildDelete")
    /\ ev.kind = "GuildDelete" => guild_key(ev.id) \notin DOMAIN kv'
    /\ ev.kind # "GuildDelete" => guild_key(ev.id) \in DOMAIN kv'
    /\ ev.kind = "UnavailableGuild" => kv'[guild_key(ev.id)].unavailable
    /\ ev.kind = "GuildCreate" =>
            /\ ~kv'[guild_key(ev.id)].unavailable
            /\ \A r \in world.roles : role_key(ev.id, r) \in DOMAIN kv' <=> r \in ev.roles

(* what a cascade delete for guild g has to leave alone *)
CascadeFrame(g) ==
    /\ \A k \in Outside(g) \ GuildEntityKeys(g) :
            /\ k \in DOMAIN kv <=> k \in DOMAIN kv'
            /\ k \in DOMAIN kv => kv'[k] = kv[k]
    /\ \A h \in Guilds \ {g} :
            Members(DB, GuildKeysSet(h))' = Members(DB, GuildKeysSet(h))

(* C34: applying GuildDelete, UnavailableGuild or GuildCreate for guild G leaves every
   key of another guild and every private channel stored with the value it had, stores
   no such key anew, and leaves the guild_keys set of every other guild as it was: a
   step that breaks the frame of G is the update of no cascade event for G. *)
C34_CascadeFrame ==
    [][\A g \in Guilds :
        \/ CascadeFrame(g)
        \/ lastOp' # <<>>
        \/ \A ev \in CascadeEvents :
                ~(ev.id = g /\ CascadeMark(ev) /\ Project(ev))]_vars

C34_Witness ==
    /\ lastDelete[1]
    /\ guild_key(1) \notin DOMAIN kv
    /\ role_key(1, 20) \notin DOMAIN kv
    /\ guild_key(2) \in DOMAIN kv
    /\ role_key(2, 20) \in DOMAIN kv
    /\ role_key(2, 20) \in Members(DB, GuildKeysSet(2))
    /\ private_channel_key(13) \in DOMAIN kv
    /\ private_channel_key(11) \in Members(DB, GuildKeysSet(1))

-----------------------------------------------------------------------------
(* Properties of the resume map *)

(* C35: the resume map built at startup has an entry only for shards that had a session
   id at the last dump, and no entry carries the empty session id. *)
C35_ResumeOnlySessions ==
    [][(ResumeStartup /\ lastOp # <<>>) =>
        \A n \in DOMAIN resumes'[1] :
            /\ lastOp[1].infos[n].session_id # <<>>
            /\ resumes'[1][n].session_id # ""]_vars

-----------------------------------------------------------------------------
(* Properties of the cluster ranges *)

(* C36: every cluster built by get_clusters has a range with from <= to that lies within
   shards_start..shards_end, and the subtraction in last_index + base - 1 never goes
   below zero. *)
C36_ValidRanges ==
    clusters # <<>> =>
        LET cs == clusters[1]
            base == get_shards(config) \div config.clusters
            extra == get_shards(config) % config.clusters
        IN \A i \in 1..Len(cs) :
                /\ cs[i].from <= cs[i].to
                /\ config.shards_start <= cs[i].from
                /\ cs[i].to <= config.shards_end
                /\ (i - 1 >= extra) => cs[i].from + base >= 1

-----------------------------------------------------------------------------
(* Properties of set_all under serialization errors *)

(* C37: a set_all whose batch holds a value that fails to serialize returns an error and
   changes no value, no index set and no expiry entry, whatever precedes the failing
   value in the batch. *)
C37_SetAllAllOrNothing ==
    [][(lastOp' # <<>> /\ lastOp'[1].op = "set_all" /\ lastOp'[1].failing) =>
        /\ lastOp'[1].result = "Err"
        /\ kv' = kv
        /\ sets' = sets
        /\ expiry' = expiry]_vars

C37_Witness ==
    /\ lastOp # <<>>
    /\ lastOp[1].op = "set_all"
    /\ lastOp[1].failing
    /\ lastOp[1].before = 1
    /\ lastOp[1].result = "Err"
    /\ kv = Empty
    /\ sets = Empty

====
